---- MODULE Spec2Model ----
(***************************************************************************)
(* Model of the gRPC scheduling API: the record store (users, events,      *)
(* schedules, appointments), the authenticate / checkOwnership middleware  *)
(* and the handlers of the five services.  One action per handler; a       *)
(* handler runs from its first statement to its callback.                  *)
(***************************************************************************)
EXTENDS Integers, Sequences, FiniteSets, TLC

(***************************************************************************)
(* Bounds of the model.                                                    *)
(***************************************************************************)
MaxClock == 2
MaxTokens == 2
MaxUsers == 2
MaxEvents == 1
MaxSchedules == 2
MaxAppointments == 1
MaxRows == 1
MaxCalls == 2

(***************************************************************************)
(* JavaScript values.  Strings are TLA+ strings; undefined and null are    *)
(* two reserved atoms that no request string or stored string equals.      *)
(***************************************************************************)
Undefined == "<undefined>"
Null == "<null>"

\* !v for a string-valued v
Falsy(v) == v \in {Undefined, Null, ""}

\* !v for a number-valued v (numbers are written as decimal numerals)
FalsyNumber(v) == v \in {Undefined, Null, "0"}

\* the left operand alone, without the fallback
LeftOperand(a, b) == a

\* a || b
OrElse(a, b) == IF Falsy(a) THEN b ELSE a

(***************************************************************************)
(* Status codes handed to the callback.  The six gRPC codes the handlers   *)
(* use, OK for callback(null, ...), and the code property of an error      *)
(* object raised by the store driver.                                      *)
(***************************************************************************)
OK == "OK"
INVALID_ARGUMENT == "INVALID_ARGUMENT"
UNAUTHENTICATED == "UNAUTHENTICATED"
PERMISSION_DENIED == "PERMISSION_DENIED"
NOT_FOUND == "NOT_FOUND"
ALREADY_EXISTS == "ALREADY_EXISTS"
INTERNAL == "INTERNAL"
SQLITE_CONSTRAINT == "SQLITE_CONSTRAINT"

Taxonomy == {INVALID_ARGUMENT, UNAUTHENTICATED, PERMISSION_DENIED, NOT_FOUND, ALREADY_EXISTS, INTERNAL}

DatabaseError == "Database error"

(***************************************************************************)
(* State.                                                                  *)
(***************************************************************************)
VARIABLES
  users,          \* table users, rows in rowid order
  events,         \* table events
  schedules,      \* table schedules
  scheduleSeq,    \* AUTOINCREMENT counter of schedules.id
  appointments,   \* table appointments
  now,            \* Date.now()
  tokensIssued,   \* number of crypto.randomBytes(32) draws made by Login
  resp,           \* the callback invocation of the request being answered
  issuedTo,       \* history: issuedTo[n] is the account Login issued token n to
  revoked,        \* history: tokens presented to a successful Logout
  lastCreate,     \* history: the latest successful CreateSchedule request
  inflight        \* the calls a handler has begun and not yet answered, by call slot

store == <<users, events, schedules, scheduleSeq, appointments>>
history == <<issuedTo, revoked, lastCreate>>
vars == <<users, events, schedules, scheduleSeq, appointments, now, tokensIssued, resp, issuedTo,
          revoked, lastCreate, inflight>>

Idle == [op |-> "idle"]
NoBody == [kind |-> "none"]
NoRow == [kind |-> "norow"]
NoCreate == [kind |-> "nocreate"]
NoMetadata == <<>>

(***************************************************************************)
(* Store driver: dbAsync.get / dbAsync.all / dbAsync.run over a table.     *)
(***************************************************************************)
\* the rows a table holds
Rows(table) == {table[i] : i \in 1..Len(table)}

\* the rows of a table that are among those matching a WHERE clause, in rowid order
dbAll(table, matching) ==
  LET Matches(row) == row \in matching IN SelectSeq(table, Matches)

\* first row among those matching the WHERE clause, or undefined
dbGet(table, matching) ==
  LET rows == dbAll(table, matching) IN IF rows = <<>> THEN NoRow ELSE rows[1]

NoError == [code |-> OK, message |-> ""]
ConstraintError(what) == [code |-> SQLITE_CONSTRAINT, message |-> "SQLITE_CONSTRAINT: " \o what]

\* err.message.includes(needle), for the messages the driver produces
includes(message, needle) == message = "SQLITE_CONSTRAINT: " \o needle

\* the driver reports one changed row whatever the statement matched
ChangesOne(table, matching) == 1

\* UPDATE / DELETE ... WHERE ...: result.changes
Changes(table, matching) == Len(dbAll(table, matching))

\* UPDATE table SET ... WHERE ...: the table afterwards; set maps each
\* matching row to the row with the assignments applied
UpdateWhere(table, matching, set) ==
  [i \in 1..Len(table) |-> IF table[i] \in matching THEN set[table[i]] ELSE table[i]]

\* DELETE FROM table WHERE ...: the table afterwards
DeleteWhere(table, matching) ==
  LET Keep(row) == row \notin matching IN SelectSeq(table, Keep)

(***************************************************************************)
(* Schema of table users: id PRIMARY KEY, email NOT NULL UNIQUE.           *)
(* The store reports the email index before the id index when both fail.   *)
(***************************************************************************)
InsertUserError(row) ==
  IF \E i \in 1..Len(users) : users[i].email = row.email
    THEN ConstraintError("UNIQUE constraint failed: users.email")
  ELSE IF \E i \in 1..Len(users) : users[i].id = row.id
    THEN ConstraintError("UNIQUE constraint failed: users.id")
  ELSE NoError

(***************************************************************************)
(* utils/validators.isValidEmail: the format check on an email string.     *)
(***************************************************************************)
WellFormedEmails == {"a@x.io", "A@x.io", "c@x.io", "guest@x.io"}
isValidEmail(email) == email \in WellFormedEmails

(***************************************************************************)
(* Credentials.  Login draws a fresh random 64-digit hex string; the n-th  *)
(* draw is Token(n).  A header value is a sequence of pieces, the piece    *)
(* " " being one space character.                                          *)
(***************************************************************************)
\* every draw gives the same string
SameToken(n) == "tok1"

Token(n) == "tok" \o ToString(n)
ForgedToken == "forged"

\* String.prototype.split(' ')
RECURSIVE splitFrom(_, _, _)
splitFrom(s, i, word) ==
  IF i > Len(s) THEN <<word>>
  ELSE IF s[i] = " " THEN <<word>> \o splitFrom(s, i + 1, "")
  ELSE splitFrom(s, i + 1, word \o s[i])

split(s) == splitFrom(s, 1, "")

AuthFailure == [code |-> UNAUTHENTICATED]

\* middleware/auth.authenticate: the user row, or the thrown error.
\* metadata is the array call.metadata.get('authorization').
authenticate(metadata) ==
  IF metadata = <<>> THEN AuthFailure
  ELSE LET words == split(metadata[1]) IN
       IF Len(words) < 2 THEN AuthFailure
       ELSE LET token == words[2]
                HasToken(u) == u.token # Null /\ u.token = token
                user == dbGet(users, {rec \in Rows(users) : HasToken(rec)})
            IN IF Falsy(token) THEN AuthFailure
               ELSE IF user = NoRow THEN AuthFailure
               ELSE user

\* the check never throws
checkNothing(userId, resourceOwnerId) == TRUE

\* middleware/auth.checkOwnership: TRUE when it returns, FALSE when it throws
checkOwnership(userId, resourceOwnerId) == userId = resourceOwnerId

\* every caller passes for the holder of the row
NoOneElse(row, user) == FALSE

\* existingEvent.userId !== user.id, existingAppointment.userId !== user.id
NotOwner(row, user) == row.userId # user.id

(***************************************************************************)
(* Requests the model submits.                                             *)
(***************************************************************************)
IssuedTokens == {Token(n) : n \in 1..tokensIssued}

Bearer(t) == <<"Bearer", " ", t>>

\* no header, or "Bearer <token>" with a token some Login returned or a made-up one
Credentials == {<<>>} \cup {<<Bearer(t)>> : t \in IssuedTokens \cup {ForgedToken}}

\* also "Bearer" alone, "Basic <token>" and "Bearer  <token>" (two spaces)
Metadatas ==
  Credentials
    \cup {<<<<"Bearer">>>>}
    \cup {<<<<"Basic", " ", t>>>> : t \in IssuedTokens}
    \cup {<<<<"Bearer", " ", " ", t>>>> : t \in IssuedTokens}

\* the header has the exact form "Bearer <token>"
WellFormed(metadata) ==
  /\ metadata # <<>>
  /\ Len(metadata[1]) = 3
  /\ metadata[1][1] = "Bearer"
  /\ metadata[1][2] = " "
  /\ metadata[1][3] \notin {"", " "}

\* the token a well-formed header carries
Carried(metadata) == metadata[1][3]

\* the token belongs to some stored account
Live(t) == \E i \in 1..Len(users) : users[i].token = t

UserIds == {ToString(n) : n \in 1..MaxClock}

\* the callback invocation that ends a call; raised is the error object the
\* store driver rejected a statement of this call with, if any
callbackAfter(raised, op, metadata, req, code, message, body, trace) ==
  /\ resp' = [op |-> op, metadata |-> metadata, req |-> req, code |-> code,
              message |-> message, body |-> body, trace |-> trace, raised |-> raised]
  /\ inflight' = inflight

callback(op, metadata, req, code, message, body, trace) ==
  callbackAfter(NoError, op, metadata, req, code, message, body, trace)

\* the catch block of a handler that received the error thrown by authenticate
Unauthorized(op, metadata, req) ==
  /\ callback(op, metadata, req, UNAUTHENTICATED, "Unauthorized", NoBody, <<"authenticate">>)
  /\ UNCHANGED <<store, now, tokensIssued, history>>

(***************************************************************************)
(* user-service                                                            *)
(***************************************************************************)
\* SELECT * in place of the column list
UserRow(u) == u

\* SELECT id, name, email, timezone FROM users
UserView(u) == [id |-> u.id, name |-> u.name, email |-> u.email, timezone |-> u.timezone]

\* two registrations whose emails differ only in letter case
SignUps ==
  {[name |-> "Ann", email |-> "a@x.io", password |-> "pw", timezone |-> Undefined],
   [name |-> "Bob", email |-> "A@x.io", password |-> "pw", timezone |-> "UTC"]}

CreateUserRequests ==
  SignUps \cup
  {[name |-> "", email |-> "a@x.io", password |-> "pw", timezone |-> Undefined],
   [name |-> "Ann", email |-> "", password |-> "pw", timezone |-> Undefined],
   [name |-> "Ann", email |-> "a@x.io", password |-> "", timezone |-> "UTC"],
   [name |-> "Ann", email |-> "bad", password |-> "pw", timezone |-> Undefined]}

CreateUser(req) ==
  /\ resp = Idle
  /\ IF Falsy(req.name) \/ Falsy(req.email) \/ Falsy(req.password)
       THEN /\ callback("CreateUser", NoMetadata, req, INVALID_ARGUMENT,
                        "Name, email, and password are required", NoBody, <<"validate">>)
            /\ UNCHANGED <<store, now, tokensIssued, history>>
     ELSE IF ~isValidEmail(req.email)
       THEN /\ callback("CreateUser", NoMetadata, req, INVALID_ARGUMENT,
                        "Invalid email format", NoBody, <<"validate">>)
            /\ UNCHANGED <<store, now, tokensIssued, history>>
     ELSE LET id == ToString(now)
              row == [id |-> id, name |-> req.name, email |-> req.email,
                      password |-> req.password,
                      timezone |-> OrElse(req.timezone, Null), token |-> Null]
              err == InsertUserError(row)
          IN /\ Len(users) < MaxUsers
             /\ IF err = NoError
                  THEN /\ users' = Append(users, row)
                       /\ callback("CreateUser", NoMetadata, req, OK, "",
                                   [id |-> id, name |-> req.name, email |-> req.email,
                                    timezone |-> OrElse(req.timezone, "")],
                                   <<"validate", "write">>)
                ELSE IF includes(err.message, "UNIQUE constraint failed: users.email")
                  THEN /\ users' = users
                       /\ callbackAfter(err, "CreateUser", NoMetadata, req, ALREADY_EXISTS,
                                        "Email already in use", NoBody, <<"validate", "write">>)
                ELSE /\ users' = users
                     /\ callbackAfter(err, "CreateUser", NoMetadata, req, INTERNAL,
                                      DatabaseError, NoBody, <<"validate", "write">>)
             /\ UNCHANGED <<events, schedules, scheduleSeq, appointments, now, tokensIssued, history>>

UserIdRequests == [user_id : UserIds]

GetUser(metadata, req) ==
  /\ resp = Idle
  /\ LET authenticatedUser == authenticate(metadata) IN
     IF authenticatedUser = AuthFailure THEN Unauthorized("GetUser", metadata, req)
     ELSE LET HasId(u) == u.id = req.user_id
              user == dbGet(users, {rec \in Rows(users) : HasId(rec)})
          IN /\ IF user = NoRow
                  THEN callback("GetUser", metadata, req, NOT_FOUND, "User not found", NoBody,
                                <<"authenticate", "lookup">>)
                ELSE callback("GetUser", metadata, req, OK, "", UserView(user),
                              <<"authenticate", "lookup">>)
             /\ UNCHANGED <<store, now, tokensIssued, history>>

\* the statement without its OFFSET clause
LimitOnly(table, limit, offset) ==
  LET upto == IF limit < 0 \/ limit > Len(table) THEN Len(table) ELSE limit
  IN [i \in 1..upto |-> table[i]]

\* SELECT ... LIMIT limit OFFSET offset: a negative limit is no limit, a
\* negative offset is offset 0
LimitOffset(table, limit, offset) ==
  LET from == IF offset < 0 THEN 0 ELSE offset
      upto == IF limit < 0 \/ from + limit > Len(table) THEN Len(table) ELSE from + limit
  IN [i \in 1..(IF upto > from THEN upto - from ELSE 0) |-> table[from + i]]

\* page and page_size are int32: 0 when the caller leaves them out, and they
\* may be negative
ListUsersRequests == [page : {0, 1, 2}, page_size : {-1, 0, 1, 20}]

ListUsers(metadata, req) ==
  /\ resp = Idle
  /\ LET authenticatedUser == authenticate(metadata) IN
     IF authenticatedUser = AuthFailure THEN Unauthorized("ListUsers", metadata, req)
     ELSE LET offset == (req.page - 1) * req.page_size
              rows == LimitOffset(users, req.page_size, offset)
          IN /\ callback("ListUsers", metadata, req, OK, "",
                         [users |-> [i \in 1..Len(rows) |-> UserView(rows[i])],
                          pagination |-> [page |-> req.page, page_size |-> req.page_size,
                                          total |-> Len(rows)]],
                         <<"authenticate", "lookup">>)
             /\ UNCHANGED <<store, now, tokensIssued, history>>

\* the mutable fields of an UpdateUserRequest
UpdateUserFields ==
  {[name |-> Undefined, email |-> Undefined, password |-> Undefined, timezone |-> Undefined],
   [name |-> "Cyd", email |-> Undefined, password |-> Undefined, timezone |-> Undefined],
   [name |-> Undefined, email |-> "A@x.io", password |-> Undefined, timezone |-> "CET"],
   [name |-> Undefined, email |-> "bad", password |-> Undefined, timezone |-> Undefined],
   [name |-> Undefined, email |-> Undefined, password |-> "pw", timezone |-> Undefined]}

UpdateUserRequests ==
  {[user_id |-> id, name |-> f.name, email |-> f.email, password |-> f.password,
    timezone |-> f.timezone] : id \in UserIds, f \in UpdateUserFields}

\* the update also clears the token when it changes the password
UpdateUserSetRevoking(u, req) ==
  [u EXCEPT !.name = IF ~Falsy(req.name) THEN req.name ELSE @,
            !.email = IF ~Falsy(req.email) THEN req.email ELSE @,
            !.password = IF ~Falsy(req.password) THEN req.password ELSE @,
            !.timezone = IF ~Falsy(req.timezone) THEN req.timezone ELSE @,
            !.token = IF ~Falsy(req.password) THEN Null ELSE @]

\* the row after UPDATE users SET <supplied fields>
UpdateUserSet(u, req) ==
  [u EXCEPT !.name = IF ~Falsy(req.name) THEN req.name ELSE @,
            !.email = IF ~Falsy(req.email) THEN req.email ELSE @,
            !.password = IF ~Falsy(req.password) THEN req.password ELSE @,
            !.timezone = IF ~Falsy(req.timezone) THEN req.timezone ELSE @]

\* schema of table users on UPDATE of the rows with the given id
UpdateUserError(id, req) ==
  IF /\ ~Falsy(req.email)
     /\ \E i \in 1..Len(users) : users[i].id = id
     /\ \E i \in 1..Len(users) : users[i].id # id /\ users[i].email = req.email
    THEN ConstraintError("UNIQUE constraint failed: users.email")
  ELSE NoError

UpdateUser(metadata, req) ==
  /\ resp = Idle
  /\ LET authenticatedUser == authenticate(metadata) IN
     IF authenticatedUser = AuthFailure THEN Unauthorized("UpdateUser", metadata, req)
     ELSE IF ~checkOwnership(authenticatedUser.id, req.user_id)
       THEN /\ callback("UpdateUser", metadata, req, PERMISSION_DENIED,
                        "Forbidden: You can only access or modify your own data", NoBody,
                        <<"authenticate", "ownership">>)
            /\ UNCHANGED <<store, now, tokensIssued, history>>
     ELSE IF Falsy(req.name) /\ Falsy(req.email) /\ Falsy(req.password) /\ Falsy(req.timezone)
       THEN /\ callback("UpdateUser", metadata, req, INVALID_ARGUMENT,
                        "At least one field is required", NoBody,
                        <<"authenticate", "ownership", "validate">>)
            /\ UNCHANGED <<store, now, tokensIssued, history>>
     ELSE IF ~Falsy(req.email) /\ ~isValidEmail(req.email)
       THEN /\ callback("UpdateUser", metadata, req, INVALID_ARGUMENT,
                        "Invalid email format", NoBody,
                        <<"authenticate", "ownership", "validate">>)
            /\ UNCHANGED <<store, now, tokensIssued, history>>
     ELSE LET HasId(u) == u.id = req.user_id
              Set(u) == UpdateUserSet(u, req)
              err == UpdateUserError(req.user_id, req)
              updated == UpdateWhere(users, {rec \in Rows(users) : HasId(rec)},
                             [rec \in Rows(users) |-> Set(rec)])
          IN IF err # NoError
               THEN /\ callbackAfter(err, "UpdateUser", metadata, req, err.code, err.message, NoBody,
                                     <<"authenticate", "ownership", "validate", "write">>)
                    /\ UNCHANGED <<store, now, tokensIssued, history>>
             ELSE IF Changes(users, {rec \in Rows(users) : HasId(rec)}) = 0
               THEN /\ callback("UpdateUser", metadata, req, NOT_FOUND, "User not found", NoBody,
                                <<"authenticate", "ownership", "validate", "write">>)
                    /\ UNCHANGED <<store, now, tokensIssued, history>>
             ELSE /\ users' = updated
                  /\ callback("UpdateUser", metadata, req, OK, "",
                              UserView(dbGet(updated, {rec \in Rows(updated) : HasId(rec)})),
                              <<"authenticate", "ownership", "validate", "write">>)
                  /\ UNCHANGED <<events, schedules, scheduleSeq, appointments, now, tokensIssued, history>>

\* the rows that reference the deleted account go with it
Cascade(table, id) ==
  LET Other(row) == row.userId # id IN SelectSeq(table, Other)

\* FOREIGN KEY (userId) REFERENCES users(id): no ON DELETE action is declared
\* and the connection does not enable foreign keys, so the referencing rows stay
NoAction(table, id) == table

DeleteUser(metadata, req) ==
  /\ resp = Idle
  /\ LET authenticatedUser == authenticate(metadata) IN
     IF authenticatedUser = AuthFailure THEN Unauthorized("DeleteUser", metadata, req)
     ELSE IF ~checkOwnership(authenticatedUser.id, req.user_id)
       THEN /\ callback("DeleteUser", metadata, req, PERMISSION_DENIED,
                        "Forbidden: You can only access or modify your own data", NoBody,
                        <<"authenticate", "ownership">>)
            /\ UNCHANGED <<store, now, tokensIssued, history>>
     ELSE LET HasId(u) == u.id = req.user_id
          IN IF Changes(users, {rec \in Rows(users) : HasId(rec)}) = 0
               THEN /\ callback("DeleteUser", metadata, req, NOT_FOUND, "User not found", NoBody,
                                <<"authenticate", "ownership", "write">>)
                    /\ UNCHANGED <<store, now, tokensIssued, history>>
             ELSE /\ users' = DeleteWhere(users, {rec \in Rows(users) : HasId(rec)})
                  /\ events' = NoAction(events, req.user_id)
                  /\ schedules' = NoAction(schedules, req.user_id)
                  /\ appointments' = NoAction(appointments, req.user_id)
                  /\ callback("DeleteUser", metadata, req, OK, "", NoBody,
                              <<"authenticate", "ownership", "write">>)
                  /\ UNCHANGED <<scheduleSeq, now, tokensIssued, history>>

GetUserProfile(metadata) ==
  /\ resp = Idle
  /\ LET authenticatedUser == authenticate(metadata) IN
     IF authenticatedUser = AuthFailure THEN Unauthorized("GetUserProfile", metadata, NoBody)
     ELSE /\ callback("GetUserProfile", metadata, NoBody, OK, "",
                      [id |-> authenticatedUser.id, name |-> authenticatedUser.name,
                       email |-> authenticatedUser.email,
                       timezone |-> OrElse(authenticatedUser.timezone, "")],
                      <<"authenticate">>)
          /\ UNCHANGED <<store, now, tokensIssued, history>>

(***************************************************************************)
(* session-service                                                         *)
(***************************************************************************)
SignIns == [email : {"a@x.io", "A@x.io"}, password : {"pw"}]

\* the token is stored only for an account that holds none
StoreTokenIfNone(table, id, token) ==
  [i \in 1..Len(table) |->
     IF table[i].id = id /\ table[i].token = Null THEN [table[i] EXCEPT !.token = token]
     ELSE table[i]]

\* UPDATE users SET token = ? WHERE id = ?
StoreToken(table, id, token) ==
  [i \in 1..Len(table) |->
     IF table[i].id = id THEN [table[i] EXCEPT !.token = token] ELSE table[i]]

\* the statement matches no row
ClearNoToken(table, id) == table

\* UPDATE users SET token = NULL WHERE id = ?
ClearToken(table, id) ==
  [i \in 1..Len(table) |->
     IF table[i].id = id THEN [table[i] EXCEPT !.token = Null] ELSE table[i]]

\* every supplied password is taken for the stored one
AnyPassword(stored, supplied) == FALSE

\* user.password !== password
WrongPassword(stored, supplied) == stored # supplied

LoginRequests ==
  SignIns \cup
  {[email |-> "", password |-> "pw"], [email |-> "a@x.io", password |-> ""],
   [email |-> "c@x.io", password |-> "pw"], [email |-> "a@x.io", password |-> "guess"]}

Login(req) ==
  /\ resp = Idle
  /\ IF Falsy(req.email) \/ Falsy(req.password)
       THEN /\ callback("Login", NoMetadata, req, INVALID_ARGUMENT,
                        "Email and password are required", NoBody, <<"validate">>)
            /\ UNCHANGED <<store, now, tokensIssued, history>>
     ELSE LET HasEmail(u) == u.email = req.email
              user == dbGet(users, {rec \in Rows(users) : HasEmail(rec)})
          IN IF user = NoRow \/ WrongPassword(user.password, req.password)
               THEN /\ callback("Login", NoMetadata, req, UNAUTHENTICATED,
                                "Invalid credentials", NoBody, <<"validate", "lookup">>)
                    /\ UNCHANGED <<store, now, tokensIssued, history>>
             ELSE LET token == Token(tokensIssued + 1)
                  IN /\ tokensIssued < MaxTokens
                     /\ tokensIssued' = tokensIssued + 1
                     /\ users' = StoreToken(users, user.id, token)
                     /\ issuedTo' = Append(issuedTo, user.id)
                     /\ callback("Login", NoMetadata, req, OK, "", [token |-> token],
                                 <<"validate", "lookup", "write">>)
                     /\ UNCHANGED <<events, schedules, scheduleSeq, appointments, now, revoked, lastCreate>>

Logout(metadata) ==
  /\ resp = Idle
  /\ LET user == authenticate(metadata) IN
     IF user = AuthFailure THEN Unauthorized("Logout", metadata, NoBody)
     ELSE /\ users' = ClearToken(users, user.id)
          /\ revoked' = revoked \cup {user.token}
          /\ callback("Logout", metadata, NoBody, OK, "", [message |-> "Logout successful"],
                      <<"authenticate", "write">>)
          /\ UNCHANGED <<events, schedules, scheduleSeq, appointments, now, tokensIssued, issuedTo, lastCreate>>

(***************************************************************************)
(* Login, one step per statement it awaits.  A call occupies a slot; the   *)
(* handler runs up to its next await, the store applies the statement it   *)
(* waits for, and handlers of other calls may run in between.              *)
(***************************************************************************)
Calls == 1..MaxCalls
NotCalled == [pc |-> "idle"]

\* the token column of the account with the given id
StoredToken(id) == {u.token : u \in {r \in Rows(users) : r.id = id}}

\* the calls that have begun and are not yet answered
Running == {q \in Calls : inflight[q].pc \notin {"idle", "done"}}

\* callback(...) of the call in slot p
Answered(p, code, message, body) ==
  inflight' = [inflight EXCEPT ![p] = [@ EXCEPT !.pc = "done", !.code = code,
                                                 !.message = message, !.body = body]]

\* the handler starts: validation, then SELECT * FROM users WHERE email = ? is sent
LoginCall(p, req) ==
  /\ inflight[p] = NotCalled
  /\ LET call == [pc |-> "get", op |-> "Login", req |-> req, user |-> NoRow, token |-> Null,
                  code |-> OK, message |-> "", body |-> NoBody,
                  during |-> Running, after |-> {}, repeats |-> FALSE, found |-> {}]
     IN inflight' = [inflight EXCEPT ![p] =
          IF Falsy(req.email) \/ Falsy(req.password)
            THEN [call EXCEPT !.pc = "done", !.code = INVALID_ARGUMENT,
                              !.message = "Email and password are required"]
          ELSE call]
  /\ UNCHANGED <<store, now, tokensIssued, resp, history>>

\* the SELECT resolves: the credentials are compared, the token is drawn and
\* UPDATE users SET token = ? WHERE id = ? is sent
LoginGet(p) ==
  /\ inflight[p].pc = "get"
  /\ inflight[p].op = "Login"
  /\ LET req == inflight[p].req
         HasEmail(u) == u.email = req.email
         user == dbGet(users, {rec \in Rows(users) : HasEmail(rec)})
     IN IF user = NoRow \/ WrongPassword(user.password, req.password)
          THEN /\ Answered(p, UNAUTHENTICATED, "Invalid credentials", NoBody)
               /\ UNCHANGED <<tokensIssued, issuedTo>>
        ELSE /\ tokensIssued < MaxTokens
             /\ tokensIssued' = tokensIssued + 1
             /\ issuedTo' = Append(issuedTo, user.id)
             /\ inflight' = [inflight EXCEPT ![p] =
                  [@ EXCEPT !.pc = "run", !.user = user, !.token = Token(tokensIssued + 1)]]
  /\ UNCHANGED <<store, now, resp, revoked, lastCreate>>

\* the logins of the same account whose UPDATE the store has applied
Written(id) ==
  {q \in Calls : /\ inflight[q].pc \in {"callback", "done"}
                 /\ inflight[q].op = "Login"
                 /\ inflight[q].user # NoRow
                 /\ inflight[q].user.id = id}

\* the store applies the UPDATE
LoginRun(p) ==
  /\ inflight[p].pc = "run"
  /\ inflight[p].op = "Login"
  /\ users' = StoreToken(users, inflight[p].user.id, inflight[p].token)
  /\ inflight' = [inflight EXCEPT ![p] =
       [@ EXCEPT !.pc = "callback", !.after = Written(inflight[p].user.id)]]
  /\ UNCHANGED <<events, schedules, scheduleSeq, appointments, now, tokensIssued, resp, history>>

\* the UPDATE resolves: callback(null, { token })
LoginReturn(p) ==
  /\ inflight[p].pc = "callback"
  /\ inflight[p].op = "Login"
  /\ Answered(p, OK, "", [token |-> inflight[p].token])
  /\ UNCHANGED <<store, now, tokensIssued, resp, history>>

(***************************************************************************)
(* Logout, one step per statement it awaits.  The header is parsed when    *)
(* the SELECT of authenticate resolves, which is when its outcome shows.   *)
(***************************************************************************)
\* the tokens that Logout calls answered before now had authenticated with
LoggedOut ==
  {inflight[q].user.token :
     q \in {r \in Calls : /\ inflight[r] # NotCalled
                          /\ inflight[r].op = "Logout"
                          /\ inflight[r].pc = "done"
                          /\ inflight[r].code = OK}}

\* the handler starts: authenticate sends SELECT * FROM users WHERE token = ?
LogoutCall(p, metadata) ==
  /\ inflight[p] = NotCalled
  /\ inflight' = [inflight EXCEPT ![p] =
       [pc |-> "get", op |-> "Logout", req |-> metadata, user |-> NoRow, token |-> Null,
        code |-> OK, message |-> "", body |-> NoBody, during |-> Running, after |-> {},
        repeats |-> (WellFormed(metadata) /\ Carried(metadata) \in LoggedOut), found |-> {}]]
  /\ UNCHANGED <<store, now, tokensIssued, resp, history>>

\* the SELECT resolves: authenticate returns the row or throws; with a row,
\* UPDATE users SET token = NULL WHERE id = ? is sent
LogoutGet(p) ==
  /\ inflight[p].pc = "get"
  /\ inflight[p].op = "Logout"
  /\ LET user == authenticate(inflight[p].req)
     IN IF user = AuthFailure
          THEN Answered(p, UNAUTHENTICATED, "Unauthorized", NoBody)
        ELSE inflight' = [inflight EXCEPT ![p] = [@ EXCEPT !.pc = "run", !.user = user]]
  /\ UNCHANGED <<store, now, tokensIssued, resp, history>>

\* the store applies the UPDATE, and an UPDATE that finds the token already
\* absent is answered as an error
LogoutRunStrict(p) ==
  /\ inflight[p].pc = "run"
  /\ inflight[p].op = "Logout"
  /\ IF StoredToken(inflight[p].user.id) \subseteq {Null}
       THEN /\ inflight' = [inflight EXCEPT ![p] =
                 [@ EXCEPT !.pc = "done", !.code = NOT_FOUND, !.message = "No session",
                           !.found = StoredToken(inflight[p].user.id)]]
            /\ UNCHANGED <<users, revoked>>
     ELSE /\ users' = ClearToken(users, inflight[p].user.id)
          /\ revoked' = revoked \cup {inflight[p].user.token}
          /\ inflight' = [inflight EXCEPT ![p] =
               [@ EXCEPT !.pc = "callback", !.found = StoredToken(inflight[p].user.id)]]
  /\ UNCHANGED <<events, schedules, scheduleSeq, appointments, now, tokensIssued, resp,
                 issuedTo, lastCreate>>

\* the store applies the UPDATE; result.changes is not looked at
LogoutRun(p) ==
  /\ inflight[p].pc = "run"
  /\ inflight[p].op = "Logout"
  /\ users' = ClearToken(users, inflight[p].user.id)
  /\ revoked' = revoked \cup {inflight[p].user.token}
  /\ inflight' = [inflight EXCEPT ![p] =
       [@ EXCEPT !.pc = "callback", !.found = StoredToken(inflight[p].user.id)]]
  /\ UNCHANGED <<events, schedules, scheduleSeq, appointments, now, tokensIssued, resp,
                 issuedTo, lastCreate>>

\* the UPDATE resolves: callback(null, { message: 'Logout successful' })
LogoutReturn(p) ==
  /\ inflight[p].pc = "callback"
  /\ inflight[p].op = "Logout"
  /\ Answered(p, OK, "", [message |-> "Logout successful"])
  /\ UNCHANGED <<store, now, tokensIssued, resp, history>>

(***************************************************************************)
(* event-service                                                           *)
(***************************************************************************)
\* utils/validators.isValidHexColor: '#' followed by hex digits
HexColors == {"#FF0000", "#00FF00"}
isValidHexColor(color) == color \in HexColors

\* the driver binds an undefined parameter as NULL
bind(v) == IF v = Undefined THEN Null ELSE v

EventIds == {ToString(n) : n \in 1..MaxClock}

EventView(e, isOwner) ==
  [id |-> e.id, name |-> e.name, duration |-> e.duration,
   description |-> OrElse(e.description, ""), color |-> OrElse(e.color, ""),
   user_id |-> e.userId, is_owner |-> isOwner]

\* schema of table events: id PRIMARY KEY; name, duration, userId NOT NULL
InsertEventError(row) ==
  IF row.name = Null THEN ConstraintError("NOT NULL constraint failed: events.name")
  ELSE IF row.duration = Null THEN ConstraintError("NOT NULL constraint failed: events.duration")
  ELSE IF row.userId = Null THEN ConstraintError("NOT NULL constraint failed: events.userId")
  ELSE IF \E i \in 1..Len(events) : events[i].id = row.id
    THEN ConstraintError("UNIQUE constraint failed: events.id")
  ELSE NoError

CreateEventRequests ==
  {[name |-> "Intro", duration |-> "30", description |-> Undefined, color |-> Undefined],
   [name |-> "Intro", duration |-> "30", description |-> "first call", color |-> "#FF0000"],
   [name |-> "", duration |-> "30", description |-> Undefined, color |-> Undefined],
   [name |-> "Intro", duration |-> "0", description |-> Undefined, color |-> Undefined],
   [name |-> "Intro", duration |-> "30", description |-> Undefined, color |-> "red"]}

CreateEvent(metadata, req) ==
  /\ resp = Idle
  /\ LET user == authenticate(metadata) IN
     IF user = AuthFailure THEN Unauthorized("CreateEvent", metadata, req)
     ELSE IF Falsy(req.name) \/ FalsyNumber(req.duration)
       THEN /\ callback("CreateEvent", metadata, req, INVALID_ARGUMENT,
                        "Name and duration are required", NoBody, <<"authenticate", "validate">>)
            /\ UNCHANGED <<store, now, tokensIssued, history>>
     ELSE IF ~Falsy(req.color) /\ ~isValidHexColor(req.color)
       THEN /\ callback("CreateEvent", metadata, req, INVALID_ARGUMENT,
                        "Color must be a valid hex color (e.g., #FF0000)", NoBody,
                        <<"authenticate", "validate">>)
            /\ UNCHANGED <<store, now, tokensIssued, history>>
     ELSE LET id == ToString(now)
              row == [id |-> id, name |-> req.name, duration |-> req.duration,
                      description |-> OrElse(req.description, Null),
                      color |-> OrElse(req.color, Null), userId |-> user.id]
              err == InsertEventError(row)
          IN /\ Len(events) < MaxEvents
             /\ IF err = NoError
                  THEN /\ events' = Append(events, row)
                       /\ callback("CreateEvent", metadata, req, OK, "",
                                   [id |-> id, name |-> req.name, duration |-> req.duration,
                                    description |-> OrElse(req.description, ""),
                                    color |-> OrElse(req.color, ""),
                                    user_id |-> user.id, is_owner |-> TRUE],
                                   <<"authenticate", "validate", "write">>)
                ELSE /\ events' = events
                     /\ callbackAfter(err, "CreateEvent", metadata, req, err.code, err.message,
                                      NoBody, <<"authenticate", "validate", "write">>)
             /\ UNCHANGED <<users, schedules, scheduleSeq, appointments, now, tokensIssued, history>>

GetEvent(metadata, req) ==
  /\ resp = Idle
  /\ LET user == authenticate(metadata) IN
     IF user = AuthFailure THEN Unauthorized("GetEvent", metadata, req)
     ELSE LET HasId(e) == e.id = req.event_id
              event == dbGet(events, {rec \in Rows(events) : HasId(rec)})
          IN /\ IF event = NoRow
                  THEN callback("GetEvent", metadata, req, NOT_FOUND, "Event not found", NoBody,
                                <<"authenticate", "lookup">>)
                ELSE callback("GetEvent", metadata, req, OK, "",
                              EventView(event, event.userId = user.id),
                              <<"authenticate", "lookup">>)
             /\ UNCHANGED <<store, now, tokensIssued, history>>

ListEvents(metadata) ==
  /\ resp = Idle
  /\ LET user == authenticate(metadata) IN
     IF user = AuthFailure THEN Unauthorized("ListEvents", metadata, NoBody)
     ELSE LET OwnedBy(e) == e.userId = user.id
              rows == dbAll(events, {rec \in Rows(events) : OwnedBy(rec)})
          IN /\ callback("ListEvents", metadata, NoBody, OK, "",
                         [events |-> [i \in 1..Len(rows) |-> EventView(rows[i], TRUE)]],
                         <<"authenticate", "lookup">>)
             /\ UNCHANGED <<store, now, tokensIssued, history>>

\* the mutable fields of an UpdateEventRequest; an optional field that the
\* caller leaves out is undefined in call.request
UpdateEventFields ==
  {[name |-> Undefined, duration |-> Undefined, description |-> Undefined, color |-> Undefined],
   [name |-> "Chat", duration |-> Undefined, description |-> Undefined, color |-> Undefined],
   [name |-> Undefined, duration |-> "45", description |-> Undefined, color |-> Undefined],
   [name |-> "Chat", duration |-> "45", description |-> "second call", color |-> "#00FF00"],
   [name |-> Undefined, duration |-> "45", description |-> Undefined, color |-> "red"]}

UpdateEventRequests ==
  {[event_id |-> id, name |-> f.name, duration |-> f.duration,
    description |-> f.description, color |-> f.color] : id \in EventIds, f \in UpdateEventFields}

\* the validation "at least one field is provided" of UpdateEvent
UpdateEventIsEmpty(req) ==
  Falsy(req.name) /\ req.duration = Null /\ Falsy(req.description) /\ Falsy(req.color)

\* the row after UPDATE events SET <supplied fields>
UpdateEventSet(e, req) ==
  [e EXCEPT !.name = IF ~Falsy(req.name) THEN req.name ELSE @,
            !.duration = IF req.duration # Null THEN bind(req.duration) ELSE @,
            !.description = IF ~Falsy(req.description) THEN req.description ELSE @,
            !.color = IF ~Falsy(req.color) THEN req.color ELSE @]

\* schema of table events on UPDATE
UpdateEventError(row) ==
  IF row.name = Null THEN ConstraintError("NOT NULL constraint failed: events.name")
  ELSE IF row.duration = Null THEN ConstraintError("NOT NULL constraint failed: events.duration")
  ELSE NoError

UpdateEvent(metadata, req) ==
  /\ resp = Idle
  /\ LET user == authenticate(metadata) IN
     IF user = AuthFailure THEN Unauthorized("UpdateEvent", metadata, req)
     ELSE IF UpdateEventIsEmpty(req)
       THEN /\ callback("UpdateEvent", metadata, req, INVALID_ARGUMENT,
                        "At least one field is required", NoBody, <<"authenticate", "validate">>)
            /\ UNCHANGED <<store, now, tokensIssued, history>>
     ELSE IF ~Falsy(req.color) /\ ~isValidHexColor(req.color)
       THEN /\ callback("UpdateEvent", metadata, req, INVALID_ARGUMENT,
                        "Color must be a valid hex color (e.g., #FF0000)", NoBody,
                        <<"authenticate", "validate">>)
            /\ UNCHANGED <<store, now, tokensIssued, history>>
     ELSE LET HasId(e) == e.id = req.event_id
              existingEvent == dbGet(events, {rec \in Rows(events) : HasId(rec)})
          IN IF existingEvent = NoRow
               THEN /\ callback("UpdateEvent", metadata, req, NOT_FOUND, "Event not found", NoBody,
                                <<"authenticate", "validate", "lookup">>)
                    /\ UNCHANGED <<store, now, tokensIssued, history>>
             ELSE IF NotOwner(existingEvent, user)
               THEN /\ callback("UpdateEvent", metadata, req, PERMISSION_DENIED,
                                "Forbidden: You can only modify your own events", NoBody,
                                <<"authenticate", "validate", "lookup", "ownership">>)
                    /\ UNCHANGED <<store, now, tokensIssued, history>>
             ELSE LET Set(e) == UpdateEventSet(e, req)
                      err == UpdateEventError(Set(existingEvent))
                      updated == UpdateWhere(events, {rec \in Rows(events) : HasId(rec)},
                                     [rec \in Rows(events) |-> Set(rec)])
                  IN IF err # NoError
                       THEN /\ callbackAfter(err, "UpdateEvent", metadata, req, err.code, err.message, NoBody,
                                             <<"authenticate", "validate", "lookup", "ownership", "write">>)
                            /\ UNCHANGED <<store, now, tokensIssued, history>>
                     ELSE IF Changes(events, {rec \in Rows(events) : HasId(rec)}) = 0
                       THEN /\ callback("UpdateEvent", metadata, req, NOT_FOUND,
                                        "Event not found or no changes made", NoBody,
                                        <<"authenticate", "validate", "lookup", "ownership", "write">>)
                            /\ UNCHANGED <<store, now, tokensIssued, history>>
                     ELSE /\ events' = updated
                          /\ callback("UpdateEvent", metadata, req, OK, "",
                                      EventView(dbGet(updated, {rec \in Rows(updated) : HasId(rec)}), TRUE),
                                      <<"authenticate", "validate", "lookup", "ownership", "write">>)
                          /\ UNCHANGED <<users, schedules, scheduleSeq, appointments, now, tokensIssued, history>>

DeleteEventRequests == [event_id : EventIds]

DeleteEvent(metadata, req) ==
  /\ resp = Idle
  /\ LET user == authenticate(metadata) IN
     IF user = AuthFailure THEN Unauthorized("DeleteEvent", metadata, req)
     ELSE LET HasId(e) == e.id = req.event_id
              existingEvent == dbGet(events, {rec \in Rows(events) : HasId(rec)})
          IN IF existingEvent = NoRow
               THEN /\ callback("DeleteEvent", metadata, req, NOT_FOUND, "Event not found", NoBody,
                                <<"authenticate", "lookup">>)
                    /\ UNCHANGED <<store, now, tokensIssued, history>>
             ELSE IF NotOwner(existingEvent, user)
               THEN /\ callback("DeleteEvent", metadata, req, PERMISSION_DENIED,
                                "Forbidden: You can only delete your own events", NoBody,
                                <<"authenticate", "lookup", "ownership">>)
                    /\ UNCHANGED <<store, now, tokensIssued, history>>
             ELSE IF Changes(events, {rec \in Rows(events) : HasId(rec)}) = 0
               THEN /\ callback("DeleteEvent", metadata, req, NOT_FOUND, "Event not found", NoBody,
                                <<"authenticate", "lookup", "ownership", "write">>)
                    /\ UNCHANGED <<store, now, tokensIssued, history>>
             ELSE /\ events' = DeleteWhere(events, {rec \in Rows(events) : HasId(rec)})
                  /\ callback("DeleteEvent", metadata, req, OK, "", NoBody,
                              <<"authenticate", "lookup", "ownership", "write">>)
                  /\ UNCHANGED <<users, schedules, scheduleSeq, appointments, now, tokensIssued, history>>

(***************************************************************************)
(* CreateEvent and UpdateEvent as the steps between their awaits.  The     *)
(* call in slot p records the account authenticate returned (user), whether *)
(* its own statement changed a row (wrote) and the token column of the     *)
(* caller's row at the moment the statement was applied (stored).          *)
(***************************************************************************)
EventCall(op, metadata, req) ==
  [pc |-> "auth", op |-> op, metadata |-> metadata, req |-> req, user |-> NoRow,
   id |-> Null, code |-> OK, message |-> "", body |-> NoBody, wrote |-> FALSE, stored |-> {}]

\* the handler starts: authenticate sends SELECT * FROM users WHERE token = ?
CreateEventCall(p, metadata, req) ==
  /\ inflight[p] = NotCalled
  /\ inflight' = [inflight EXCEPT ![p] = EventCall("CreateEvent", metadata, req)]
  /\ UNCHANGED <<store, now, tokensIssued, resp, history>>

\* authenticate resolves; the request is validated, the id is read off the
\* clock and the INSERT is sent
CreateEventAuth(p) ==
  /\ inflight[p].pc = "auth"
  /\ inflight[p].op = "CreateEvent"
  /\ LET user == authenticate(inflight[p].metadata)
         req == inflight[p].req
     IN IF user = AuthFailure THEN Answered(p, UNAUTHENTICATED, "Unauthorized", NoBody)
        ELSE IF Falsy(req.name) \/ FalsyNumber(req.duration)
          THEN Answered(p, INVALID_ARGUMENT, "Name and duration are required", NoBody)
        ELSE IF ~Falsy(req.color) /\ ~isValidHexColor(req.color)
          THEN Answered(p, INVALID_ARGUMENT,
                        "Color must be a valid hex color (e.g., #FF0000)", NoBody)
        ELSE inflight' = [inflight EXCEPT ![p] =
               [@ EXCEPT !.pc = "run", !.user = user, !.id = ToString(now)]]
  /\ UNCHANGED <<store, now, tokensIssued, resp, history>>

\* the store applies the INSERT
CreateEventRun(p) ==
  /\ inflight[p].pc = "run"
  /\ inflight[p].op = "CreateEvent"
  /\ Len(events) < MaxEvents
  /\ LET req == inflight[p].req
         user == inflight[p].user
         row == [id |-> inflight[p].id, name |-> req.name, duration |-> req.duration,
                 description |-> OrElse(req.description, Null),
                 color |-> OrElse(req.color, Null), userId |-> user.id]
         err == InsertEventError(row)
     IN IF err = NoError
          THEN /\ events' = Append(events, row)
               /\ inflight' = [inflight EXCEPT ![p] =
                    [@ EXCEPT !.pc = "callback", !.wrote = TRUE,
                              !.stored = StoredToken(user.id),
                              !.body = [id |-> row.id, name |-> req.name,
                                        duration |-> req.duration,
                                        description |-> OrElse(req.description, ""),
                                        color |-> OrElse(req.color, ""),
                                        user_id |-> user.id, is_owner |-> TRUE]]]
        ELSE /\ events' = events
             /\ inflight' = [inflight EXCEPT ![p] =
                  [@ EXCEPT !.pc = "done", !.code = err.code, !.message = err.message,
                            !.stored = StoredToken(user.id)]]
  /\ UNCHANGED <<users, schedules, scheduleSeq, appointments, now, tokensIssued, resp, history>>

\* the INSERT resolves: callback(null, { id, name, ... })
CreateEventReturn(p) ==
  /\ inflight[p].pc = "callback"
  /\ inflight[p].op = "CreateEvent"
  /\ Answered(p, OK, "", inflight[p].body)
  /\ UNCHANGED <<store, now, tokensIssued, resp, history>>

\* the handler starts: authenticate sends SELECT * FROM users WHERE token = ?
UpdateEventCall(p, metadata, req) ==
  /\ inflight[p] = NotCalled
  /\ inflight' = [inflight EXCEPT ![p] = EventCall("UpdateEvent", metadata, req)]
  /\ UNCHANGED <<store, now, tokensIssued, resp, history>>

\* authenticate resolves; the request is validated and
\* SELECT * FROM events WHERE id = ? is sent
UpdateEventAuth(p) ==
  /\ inflight[p].pc = "auth"
  /\ inflight[p].op = "UpdateEvent"
  /\ LET user == authenticate(inflight[p].metadata)
         req == inflight[p].req
     IN IF user = AuthFailure THEN Answered(p, UNAUTHENTICATED, "Unauthorized", NoBody)
        ELSE IF UpdateEventIsEmpty(req)
          THEN Answered(p, INVALID_ARGUMENT, "At least one field is required", NoBody)
        ELSE IF ~Falsy(req.color) /\ ~isValidHexColor(req.color)
          THEN Answered(p, INVALID_ARGUMENT,
                        "Color must be a valid hex color (e.g., #FF0000)", NoBody)
        ELSE inflight' = [inflight EXCEPT ![p] = [@ EXCEPT !.pc = "get", !.user = user]]
  /\ UNCHANGED <<store, now, tokensIssued, resp, history>>

\* the SELECT resolves: existence, then ownership; the UPDATE is sent
UpdateEventGet(p) ==
  /\ inflight[p].pc = "get"
  /\ inflight[p].op = "UpdateEvent"
  /\ LET HasId(e) == e.id = inflight[p].req.event_id
         existingEvent == dbGet(events, {rec \in Rows(events) : HasId(rec)})
     IN IF existingEvent = NoRow
          THEN Answered(p, NOT_FOUND, "Event not found", NoBody)
        ELSE IF NotOwner(existingEvent, inflight[p].user)
          THEN Answered(p, PERMISSION_DENIED,
                        "Forbidden: You can only modify your own events", NoBody)
        ELSE inflight' = [inflight EXCEPT ![p] = [@ EXCEPT !.pc = "run"]]
  /\ UNCHANGED <<store, now, tokensIssued, resp, history>>

\* the store applies the UPDATE to the rows that have the id now;
\* result.changes === 0 is answered NOT_FOUND, otherwise
\* SELECT * FROM events WHERE id = ? is sent
UpdateEventRun(p) ==
  /\ inflight[p].pc = "run"
  /\ inflight[p].op = "UpdateEvent"
  /\ LET req == inflight[p].req
         HasId(e) == e.id = req.event_id
         matching == {rec \in Rows(events) : HasId(rec)}
         Set(e) == UpdateEventSet(e, req)
         errors == {UpdateEventError(Set(rec)) : rec \in matching} \ {NoError}
         stored == StoredToken(inflight[p].user.id)
     IN IF errors # {}
          THEN /\ events' = events
               /\ \E err \in errors :
                    inflight' = [inflight EXCEPT ![p] =
                      [@ EXCEPT !.pc = "done", !.code = err.code, !.message = err.message,
                                !.stored = stored]]
        ELSE IF Changes(events, matching) = 0
          THEN /\ events' = events
               /\ inflight' = [inflight EXCEPT ![p] =
                    [@ EXCEPT !.pc = "done", !.code = NOT_FOUND,
                              !.message = "Event not found or no changes made",
                              !.stored = stored]]
        ELSE /\ events' = UpdateWhere(events, matching, [rec \in Rows(events) |-> Set(rec)])
             /\ inflight' = [inflight EXCEPT ![p] =
                  [@ EXCEPT !.pc = "fetch", !.wrote = TRUE, !.stored = stored]]
  /\ UNCHANGED <<users, schedules, scheduleSeq, appointments, now, tokensIssued, resp, history>>

\* the SELECT resolves: the response is built from updatedEvent; reading a
\* property of undefined throws a TypeError, which has no code
UpdateEventFetch(p) ==
  /\ inflight[p].pc = "fetch"
  /\ inflight[p].op = "UpdateEvent"
  /\ LET HasId(e) == e.id = inflight[p].req.event_id
         updatedEvent == dbGet(events, {rec \in Rows(events) : HasId(rec)})
     IN IF updatedEvent = NoRow
          THEN Answered(p, INTERNAL, DatabaseError, NoBody)
        ELSE Answered(p, OK, "", EventView(updatedEvent, TRUE))
  /\ UNCHANGED <<store, now, tokensIssued, resp, history>>

(***************************************************************************)
(* JSON text of an Availability message.  A text is a sequence of lexemes: *)
(* punctuation and string literals.                                        *)
(***************************************************************************)
Punct(c) == [t |-> c]
Str(s) == [t |-> "string", v |-> s]

\* the lexeme sequences parts[i..] separated by commas
RECURSIVE Join(_, _)
Join(parts, i) ==
  IF i > Len(parts) THEN <<>>
  ELSE IF i = Len(parts) THEN parts[i]
  ELSE parts[i] \o <<Punct(",")>> \o Join(parts, i + 1)

stringifyTimeRange(r) ==
  <<Punct("{"), Str("start_time"), Punct(":"), Str(r.start_time), Punct(","),
    Str("end_time"), Punct(":"), Str(r.end_time), Punct("}")>>

stringifyDaySchedule(d) ==
  <<Punct("{"), Str("day"), Punct(":"), Str(d.day), Punct(","),
    Str("time_ranges"), Punct(":"), Punct("[")>>
    \o Join([i \in 1..Len(d.time_ranges) |-> stringifyTimeRange(d.time_ranges[i])], 1)
    \o <<Punct("]"), Punct("}")>>

\* JSON.stringify(availability)
stringify(availability) ==
  <<Punct("{"), Str("days"), Punct(":"), Punct("[")>>
    \o Join([i \in 1..Len(availability.days) |-> stringifyDaySchedule(availability.days[i])], 1)
    \o <<Punct("]"), Punct("}")>>

\* JSON.parse: the value that starts at text[i] and the index after it
RECURSIVE parseValue(_, _), parseMembers(_, _), parseElements(_, _)
parseValue(text, i) ==
  IF text[i].t = "string" THEN [value |-> text[i].v, next |-> i + 1]
  ELSE IF text[i].t = "{"
    THEN IF text[i + 1].t = "}" THEN [value |-> <<>>, next |-> i + 2]
         ELSE parseMembers(text, i + 1)
  ELSE IF text[i + 1].t = "]" THEN [value |-> <<>>, next |-> i + 2]
       ELSE parseElements(text, i + 1)

parseMembers(text, i) ==
  LET key == text[i].v
      val == parseValue(text, i + 2)
  IN IF text[val.next].t = ","
       THEN LET rest == parseMembers(text, val.next + 1)
            IN [value |-> (key :> val.value) @@ rest.value, next |-> rest.next]
     ELSE [value |-> (key :> val.value), next |-> val.next + 1]

parseElements(text, i) ==
  LET val == parseValue(text, i)
  IN IF text[val.next].t = ","
       THEN LET rest == parseElements(text, val.next + 1)
            IN [value |-> <<val.value>> \o rest.value, next |-> rest.next]
     ELSE [value |-> <<val.value>>, next |-> val.next + 1]

parse(text) == parseValue(text, 1).value

(***************************************************************************)
(* schedule-service                                                        *)
(***************************************************************************)
WorkingHours ==
  [days |-> <<[day |-> "Monday",
               time_ranges |-> <<[start_time |-> "09:00", end_time |-> "17:00"]>>]>>]
DayOff == [days |-> <<[day |-> "Friday", time_ranges |-> <<>>]>>]

\* an Availability message, or null when the request carries none
Availabilities == {WorkingHours, DayOff}
NoAvailability == [kind |-> "null"]
FalsyMessage(m) == m = NoAvailability

ScheduleRequests ==
  [user_id : UserIds, availability : Availabilities]
    \cup {[user_id |-> "", availability |-> WorkingHours],
          [user_id |-> "1", availability |-> NoAvailability]}

\* the insert issued ahead of the comparison of user_id with the caller's id
CreateScheduleInsertFirst(metadata, req) ==
  /\ resp = Idle
  /\ LET user == authenticate(metadata) IN
     IF user = AuthFailure THEN Unauthorized("CreateSchedule", metadata, req)
     ELSE IF Falsy(req.user_id) \/ FalsyMessage(req.availability)
       THEN /\ callback("CreateSchedule", metadata, req, INVALID_ARGUMENT,
                        "userId and availability are required", NoBody,
                        <<"authenticate", "validate">>)
            /\ UNCHANGED <<store, now, tokensIssued, history>>
     ELSE LET row == [id |-> scheduleSeq + 1, userId |-> req.user_id,
                      availability |-> stringify(req.availability)]
              inserted == Append(schedules, row)
              OwnedBy(r) == r.userId = req.user_id
              newSchedule == dbGet(inserted, {rec \in Rows(inserted) : OwnedBy(rec)})
          IN /\ scheduleSeq < MaxSchedules
             /\ schedules' = inserted
             /\ scheduleSeq' = scheduleSeq + 1
             /\ lastCreate' = [user_id |-> req.user_id, availability |-> req.availability,
                               id |-> row.id]
             /\ IF req.user_id # user.id
                  THEN callback("CreateSchedule", metadata, req, PERMISSION_DENIED,
                                "Forbidden: You can only create schedules for yourself", NoBody,
                                <<"authenticate", "validate", "write", "ownership">>)
                ELSE callback("CreateSchedule", metadata, req, OK, "",
                              [id |-> newSchedule.id, user_id |-> newSchedule.userId,
                               availability |-> req.availability],
                              <<"authenticate", "validate", "write", "ownership", "lookup">>)
             /\ UNCHANGED <<users, events, appointments, now, tokensIssued, issuedTo, revoked>>

CreateSchedule(metadata, req) ==
  /\ resp = Idle
  /\ LET user == authenticate(metadata) IN
     IF user = AuthFailure THEN Unauthorized("CreateSchedule", metadata, req)
     ELSE IF Falsy(req.user_id) \/ FalsyMessage(req.availability)
       THEN /\ callback("CreateSchedule", metadata, req, INVALID_ARGUMENT,
                        "userId and availability are required", NoBody,
                        <<"authenticate", "validate">>)
            /\ UNCHANGED <<store, now, tokensIssued, history>>
     ELSE IF req.user_id # user.id
       THEN /\ callback("CreateSchedule", metadata, req, PERMISSION_DENIED,
                        "Forbidden: You can only create schedules for yourself", NoBody,
                        <<"authenticate", "validate", "ownership">>)
            /\ UNCHANGED <<store, now, tokensIssued, history>>
     ELSE LET availabilityJson == stringify(req.availability)
              row == [id |-> scheduleSeq + 1, userId |-> req.user_id,
                      availability |-> availabilityJson]
              inserted == Append(schedules, row)
              OwnedBy(r) == r.userId = req.user_id
              newSchedule == dbGet(inserted, {rec \in Rows(inserted) : OwnedBy(rec)})
          IN /\ scheduleSeq < MaxSchedules
             /\ schedules' = inserted
             /\ scheduleSeq' = scheduleSeq + 1
             /\ lastCreate' = [user_id |-> req.user_id, availability |-> req.availability,
                               id |-> row.id]
             /\ callback("CreateSchedule", metadata, req, OK, "",
                         [id |-> newSchedule.id, user_id |-> newSchedule.userId,
                          availability |-> req.availability],
                         <<"authenticate", "validate", "ownership", "write", "lookup">>)
             /\ UNCHANGED <<users, events, appointments, now, tokensIssued, issuedTo, revoked>>

GetScheduleRequests == [user_id : UserIds]

\* GetSchedule takes no credential from the call
\* the lookup preceded by authenticate, as in the protected handlers
GetScheduleAuthenticated(metadata, req) ==
  /\ resp = Idle
  /\ IF authenticate(metadata) = AuthFailure THEN Unauthorized("GetSchedule", metadata, req)
     ELSE LET OwnedBy(r) == r.userId = req.user_id
              schedule == dbGet(schedules, {rec \in Rows(schedules) : OwnedBy(rec)})
          IN /\ IF schedule = NoRow
                  THEN callback("GetSchedule", metadata, req, NOT_FOUND, "Schedule not found",
                                NoBody, <<"authenticate", "lookup">>)
                ELSE callback("GetSchedule", metadata, req, OK, "",
                              [id |-> schedule.id, user_id |-> schedule.userId,
                               availability |-> parse(schedule.availability)],
                              <<"authenticate", "lookup">>)
             /\ UNCHANGED <<store, now, tokensIssued, history>>

GetSchedule(metadata, req) ==
  /\ resp = Idle
  /\ LET OwnedBy(r) == r.userId = req.user_id
         schedule == dbGet(schedules, {rec \in Rows(schedules) : OwnedBy(rec)})
     IN /\ IF schedule = NoRow
             THEN callback("GetSchedule", metadata, req, NOT_FOUND, "Schedule not found", NoBody,
                           <<"lookup">>)
           ELSE callback("GetSchedule", metadata, req, OK, "",
                         [id |-> schedule.id, user_id |-> schedule.userId,
                          availability |-> parse(schedule.availability)],
                         <<"lookup">>)
        /\ UNCHANGED <<store, now, tokensIssued, history>>

ListSchedules(metadata) ==
  /\ resp = Idle
  /\ LET user == authenticate(metadata) IN
     IF user = AuthFailure THEN Unauthorized("ListSchedules", metadata, NoBody)
     ELSE LET OwnedBy(r) == r.userId = user.id
              rows == dbAll(schedules, {rec \in Rows(schedules) : OwnedBy(rec)})
          IN /\ callback("ListSchedules", metadata, NoBody, OK, "",
                         [schedules |-> [i \in 1..Len(rows) |->
                            [id |-> rows[i].id, user_id |-> rows[i].userId,
                             availability |-> parse(rows[i].availability)]]],
                         <<"authenticate", "lookup">>)
             /\ UNCHANGED <<store, now, tokensIssued, history>>

\* history: a write to the schedules of owner id ends the create-then-get window
Forget(id) == IF lastCreate # NoCreate /\ lastCreate.user_id = id THEN NoCreate ELSE lastCreate

UpdateSchedule(metadata, req) ==
  /\ resp = Idle
  /\ LET user == authenticate(metadata) IN
     IF user = AuthFailure THEN Unauthorized("UpdateSchedule", metadata, req)
     ELSE IF FalsyMessage(req.availability)
       THEN /\ callback("UpdateSchedule", metadata, req, INVALID_ARGUMENT,
                        "Availability is required", NoBody, <<"authenticate", "validate">>)
            /\ UNCHANGED <<store, now, tokensIssued, history>>
     ELSE IF ~checkOwnership(user.id, req.user_id)
       THEN /\ callback("UpdateSchedule", metadata, req, PERMISSION_DENIED,
                        "Forbidden: You can only access or modify your own data", NoBody,
                        <<"authenticate", "validate", "ownership">>)
            /\ UNCHANGED <<store, now, tokensIssued, history>>
     ELSE LET availabilityJson == stringify(req.availability)
              OwnedBy(r) == r.userId = req.user_id
              Set(r) == [r EXCEPT !.availability = availabilityJson]
          IN IF Changes(schedules, {rec \in Rows(schedules) : OwnedBy(rec)}) = 0
               THEN /\ callback("UpdateSchedule", metadata, req, NOT_FOUND, "Schedule not found",
                                NoBody, <<"authenticate", "validate", "ownership", "write">>)
                    /\ UNCHANGED <<store, now, tokensIssued, history>>
             ELSE /\ schedules' = UpdateWhere(schedules, {rec \in Rows(schedules) : OwnedBy(rec)},
                                      [rec \in Rows(schedules) |-> Set(rec)])
                  /\ lastCreate' = Forget(req.user_id)
                  /\ callback("UpdateSchedule", metadata, req, OK, "",
                              [id |-> 0, user_id |-> req.user_id,
                               availability |-> req.availability],
                              <<"authenticate", "validate", "ownership", "write">>)
                  /\ UNCHANGED <<users, events, scheduleSeq, appointments, now, tokensIssued, issuedTo, revoked>>

DeleteSchedule(metadata, req) ==
  /\ resp = Idle
  /\ LET user == authenticate(metadata) IN
     IF user = AuthFailure THEN Unauthorized("DeleteSchedule", metadata, req)
     ELSE IF ~checkOwnership(user.id, req.user_id)
       THEN /\ callback("DeleteSchedule", metadata, req, PERMISSION_DENIED,
                        "Forbidden: You can only access or modify your own data", NoBody,
                        <<"authenticate", "ownership">>)
            /\ UNCHANGED <<store, now, tokensIssued, history>>
     ELSE LET OwnedBy(r) == r.userId = req.user_id
          IN IF Changes(schedules, {rec \in Rows(schedules) : OwnedBy(rec)}) = 0
               THEN /\ callback("DeleteSchedule", metadata, req, NOT_FOUND, "Schedule not found",
                                NoBody, <<"authenticate", "ownership", "write">>)
                    /\ UNCHANGED <<store, now, tokensIssued, history>>
             ELSE /\ schedules' = DeleteWhere(schedules, {rec \in Rows(schedules) : OwnedBy(rec)})
                  /\ lastCreate' = Forget(req.user_id)
                  /\ callback("DeleteSchedule", metadata, req, OK, "", NoBody,
                              <<"authenticate", "ownership", "write">>)
                  /\ UNCHANGED <<users, events, scheduleSeq, appointments, now, tokensIssued, issuedTo, revoked>>

(***************************************************************************)
(* appointment-service                                                     *)
(***************************************************************************)
AppointmentIds == {ToString(n) : n \in 1..MaxClock}

AppointmentView(a) ==
  [id |-> a.id, event_id |-> a.eventId, user_id |-> a.userId,
   invitee_email |-> a.inviteeEmail, start_time |-> a.startTime,
   end_time |-> a.endTime, status |-> a.status]

\* schema of table appointments: id PRIMARY KEY
InsertAppointmentError(row) ==
  IF \E i \in 1..Len(appointments) : appointments[i].id = row.id
    THEN ConstraintError("UNIQUE constraint failed: appointments.id")
  ELSE NoError

CreateAppointmentRequests ==
  {[event_id |-> id, invitee_email |-> "guest@x.io", start_time |-> "10:00", end_time |-> "10:30"]
     : id \in EventIds}
    \cup {[event_id |-> "", invitee_email |-> "guest@x.io", start_time |-> "10:00", end_time |-> "10:30"],
          [event_id |-> "1", invitee_email |-> "bad", start_time |-> "10:00", end_time |-> "10:30"],
          [event_id |-> "1", invitee_email |-> "guest@x.io", start_time |-> "", end_time |-> "10:30"]}

CreateAppointment(metadata, req) ==
  /\ resp = Idle
  /\ LET user == authenticate(metadata)
         status == "scheduled"
     IN
     IF user = AuthFailure THEN Unauthorized("CreateAppointment", metadata, req)
     ELSE IF Falsy(req.event_id) \/ Falsy(req.invitee_email) \/ Falsy(req.start_time) \/ Falsy(req.end_time)
       THEN /\ callback("CreateAppointment", metadata, req, INVALID_ARGUMENT,
                        "All fields are required", NoBody, <<"authenticate", "validate">>)
            /\ UNCHANGED <<store, now, tokensIssued, history>>
     ELSE IF ~isValidEmail(req.invitee_email)
       THEN /\ callback("CreateAppointment", metadata, req, INVALID_ARGUMENT,
                        "Invalid invitee email format", NoBody, <<"authenticate", "validate">>)
            /\ UNCHANGED <<store, now, tokensIssued, history>>
     ELSE LET id == ToString(now)
              row == [id |-> id, eventId |-> req.event_id, userId |-> user.id,
                      inviteeEmail |-> req.invitee_email, startTime |-> req.start_time,
                      endTime |-> req.end_time, status |-> status]
              err == InsertAppointmentError(row)
          IN /\ Len(appointments) < MaxAppointments
             /\ IF err = NoError
                  THEN /\ appointments' = Append(appointments, row)
                       /\ callback("CreateAppointment", metadata, req, OK, "", AppointmentView(row),
                                   <<"authenticate", "validate", "write">>)
                ELSE /\ appointments' = appointments
                     /\ callbackAfter(err, "CreateAppointment", metadata, req, err.code,
                                      err.message, NoBody, <<"authenticate", "validate", "write">>)
             /\ UNCHANGED <<users, events, schedules, scheduleSeq, now, tokensIssued, history>>

AppointmentIdRequests == [appointment_id : AppointmentIds]

\* the row is selected by its id alone
AnyAppointment(a, id, user) == a.id = id

\* SELECT * FROM appointments WHERE id = ? AND userId = ?
OwnAppointment(a, id, user) == a.id = id /\ a.userId = user.id

GetAppointment(metadata, req) ==
  /\ resp = Idle
  /\ LET user == authenticate(metadata) IN
     IF user = AuthFailure THEN Unauthorized("GetAppointment", metadata, req)
     ELSE LET Mine(a) == OwnAppointment(a, req.appointment_id, user)
              appointment == dbGet(appointments, {rec \in Rows(appointments) : Mine(rec)})
          IN /\ IF appointment = NoRow
                  THEN callback("GetAppointment", metadata, req, NOT_FOUND,
                                "Appointment not found", NoBody, <<"authenticate", "lookup">>)
                ELSE callback("GetAppointment", metadata, req, OK, "",
                              AppointmentView(appointment), <<"authenticate", "lookup">>)
             /\ UNCHANGED <<store, now, tokensIssued, history>>

ListAppointments(metadata) ==
  /\ resp = Idle
  /\ LET user == authenticate(metadata) IN
     IF user = AuthFailure THEN Unauthorized("ListAppointments", metadata, NoBody)
     ELSE LET OwnedBy(a) == a.userId = user.id
              rows == dbAll(appointments, {rec \in Rows(appointments) : OwnedBy(rec)})
          IN /\ callback("ListAppointments", metadata, NoBody, OK, "",
                         [appointments |-> [i \in 1..Len(rows) |-> AppointmentView(rows[i])]],
                         <<"authenticate", "lookup">>)
             /\ UNCHANGED <<store, now, tokensIssued, history>>

\* the mutable fields of an UpdateAppointmentRequest
UpdateAppointmentFields ==
  {[event_id |-> Undefined, invitee_email |-> Undefined, start_time |-> Undefined,
    end_time |-> Undefined, status |-> Undefined],
   [event_id |-> Undefined, invitee_email |-> Undefined, start_time |-> Undefined,
    end_time |-> Undefined, status |-> "canceled"],
   [event_id |-> "2", invitee_email |-> "c@x.io", start_time |-> "11:00",
    end_time |-> "11:30", status |-> Undefined],
   [event_id |-> Undefined, invitee_email |-> "bad", start_time |-> Undefined,
    end_time |-> Undefined, status |-> Undefined]}

UpdateAppointmentRequests ==
  {[appointment_id |-> id, event_id |-> f.event_id, invitee_email |-> f.invitee_email,
    start_time |-> f.start_time, end_time |-> f.end_time, status |-> f.status]
     : id \in AppointmentIds, f \in UpdateAppointmentFields}

\* the statement names every column, supplied or not
UpdateAppointmentSetAll(a, req) ==
  [a EXCEPT !.eventId = OrElse(req.event_id, ""),
            !.inviteeEmail = OrElse(req.invitee_email, ""),
            !.startTime = OrElse(req.start_time, ""),
            !.endTime = OrElse(req.end_time, ""),
            !.status = OrElse(req.status, "")]

\* the row after UPDATE appointments SET <supplied fields>
UpdateAppointmentSet(a, req) ==
  [a EXCEPT !.eventId = IF ~Falsy(req.event_id) THEN req.event_id ELSE @,
            !.inviteeEmail = IF ~Falsy(req.invitee_email) THEN req.invitee_email ELSE @,
            !.startTime = IF ~Falsy(req.start_time) THEN req.start_time ELSE @,
            !.endTime = IF ~Falsy(req.end_time) THEN req.end_time ELSE @,
            !.status = IF ~Falsy(req.status) THEN req.status ELSE @]

UpdateAppointment(metadata, req) ==
  /\ resp = Idle
  /\ LET user == authenticate(metadata) IN
     IF user = AuthFailure THEN Unauthorized("UpdateAppointment", metadata, req)
     ELSE IF /\ Falsy(req.event_id) /\ Falsy(req.invitee_email) /\ Falsy(req.start_time)
             /\ Falsy(req.end_time) /\ Falsy(req.status)
       THEN /\ callback("UpdateAppointment", metadata, req, INVALID_ARGUMENT,
                        "At least one field is required", NoBody, <<"authenticate", "validate">>)
            /\ UNCHANGED <<store, now, tokensIssued, history>>
     ELSE IF ~Falsy(req.invitee_email) /\ ~isValidEmail(req.invitee_email)
       THEN /\ callback("UpdateAppointment", metadata, req, INVALID_ARGUMENT,
                        "Invalid invitee email format", NoBody, <<"authenticate", "validate">>)
            /\ UNCHANGED <<store, now, tokensIssued, history>>
     ELSE LET HasId(a) == a.id = req.appointment_id
              existingAppointment == dbGet(appointments, {rec \in Rows(appointments) : HasId(rec)})
          IN IF existingAppointment = NoRow
               THEN /\ callback("UpdateAppointment", metadata, req, NOT_FOUND,
                                "Appointment not found", NoBody,
                                <<"authenticate", "validate", "lookup">>)
                    /\ UNCHANGED <<store, now, tokensIssued, history>>
             ELSE IF NotOwner(existingAppointment, user)
               THEN /\ callback("UpdateAppointment", metadata, req, PERMISSION_DENIED,
                                "Forbidden: You can only modify your own appointments", NoBody,
                                <<"authenticate", "validate", "lookup", "ownership">>)
                    /\ UNCHANGED <<store, now, tokensIssued, history>>
             ELSE LET Set(a) == UpdateAppointmentSet(a, req)
                      updated == UpdateWhere(appointments, {rec \in Rows(appointments) : HasId(rec)},
                                     [rec \in Rows(appointments) |-> Set(rec)])
                  IN IF Changes(appointments, {rec \in Rows(appointments) : HasId(rec)}) = 0
                       THEN /\ callback("UpdateAppointment", metadata, req, NOT_FOUND,
                                        "Appointment not found or no changes made", NoBody,
                                        <<"authenticate", "validate", "lookup", "ownership", "write">>)
                            /\ UNCHANGED <<store, now, tokensIssued, history>>
                     ELSE /\ appointments' = updated
                          /\ callback("UpdateAppointment", metadata, req, OK, "",
                                      AppointmentView(dbGet(updated, {rec \in Rows(updated) : HasId(rec)})),
                                      <<"authenticate", "validate", "lookup", "ownership", "write">>)
                          /\ UNCHANGED <<users, events, schedules, scheduleSeq, now, tokensIssued, history>>

DeleteAppointment(metadata, req) ==
  /\ resp = Idle
  /\ LET user == authenticate(metadata) IN
     IF user = AuthFailure THEN Unauthorized("DeleteAppointment", metadata, req)
     ELSE LET HasId(a) == a.id = req.appointment_id
              existingAppointment == dbGet(appointments, {rec \in Rows(appointments) : HasId(rec)})
          IN IF existingAppointment = NoRow
               THEN /\ callback("DeleteAppointment", metadata, req, NOT_FOUND,
                                "Appointment not found", NoBody, <<"authenticate", "lookup">>)
                    /\ UNCHANGED <<store, now, tokensIssued, history>>
             ELSE IF NotOwner(existingAppointment, user)
               THEN /\ callback("DeleteAppointment", metadata, req, PERMISSION_DENIED,
                                "Forbidden: You can only delete your own appointments", NoBody,
                                <<"authenticate", "lookup", "ownership">>)
                    /\ UNCHANGED <<store, now, tokensIssued, history>>
             ELSE IF Changes(appointments, {rec \in Rows(appointments) : HasId(rec)}) = 0
               THEN /\ callback("DeleteAppointment", metadata, req, NOT_FOUND,
                                "Appointment not found", NoBody,
                                <<"authenticate", "lookup", "ownership", "write">>)
                    /\ UNCHANGED <<store, now, tokensIssued, history>>
             ELSE /\ appointments' = DeleteWhere(appointments, {rec \in Rows(appointments) : HasId(rec)})
                  /\ callback("DeleteAppointment", metadata, req, OK, "", NoBody,
                              <<"authenticate", "lookup", "ownership", "write">>)
                  /\ UNCHANGED <<users, events, schedules, scheduleSeq, now, tokensIssued, history>>

(***************************************************************************)
(* Environment: the clock advances; the transport sends the answer of the  *)
(* current call, after which the next call is taken.                       *)
(***************************************************************************)
Tick ==
  /\ resp = Idle
  /\ now < MaxClock
  /\ now' = now + 1
  /\ UNCHANGED <<store, tokensIssued, resp, history, inflight>>

Complete ==
  /\ resp # Idle
  /\ resp' = Idle
  /\ UNCHANGED <<store, now, tokensIssued, history, inflight>>

Init ==
  /\ users = <<>>
  /\ events = <<>>
  /\ schedules = <<>>
  /\ scheduleSeq = 0
  /\ appointments = <<>>
  /\ now = 1
  /\ tokensIssued = 0
  /\ resp = Idle
  /\ issuedTo = <<>>
  /\ revoked = {}
  /\ lastCreate = NoCreate
  /\ inflight = [p \in Calls |-> NotCalled]

(***************************************************************************)
(* Accounts and sessions.                                                  *)
(***************************************************************************)
NextSession ==
  \/ \E req \in CreateUserRequests : CreateUser(req)
  \/ \E req \in LoginRequests : Login(req)
  \/ \E metadata \in Metadatas : Logout(metadata)
  \/ Tick
  \/ Complete

SpecSession == Init /\ [][NextSession]_vars

(***************************************************************************)
(* Accounts, sessions and the event service.                               *)
(***************************************************************************)
NextEvents ==
  \/ \E req \in SignUps : CreateUser(req)
  \/ \E req \in SignIns : Login(req)
  \/ \E metadata \in Credentials : Logout(metadata)
  \/ \E metadata \in Credentials, req \in CreateEventRequests : CreateEvent(metadata, req)
  \/ \E metadata \in Credentials, req \in DeleteEventRequests : GetEvent(metadata, req)
  \/ \E metadata \in Credentials : ListEvents(metadata)
  \/ \E metadata \in Credentials, req \in UpdateEventRequests : UpdateEvent(metadata, req)
  \/ \E metadata \in Credentials, req \in DeleteEventRequests : DeleteEvent(metadata, req)
  \/ Tick
  \/ Complete

SpecEvents == Init /\ [][NextEvents]_vars

(***************************************************************************)
(* Accounts, sessions and the schedule service.                            *)
(***************************************************************************)
NextSchedules ==
  \/ \E req \in SignUps : CreateUser(req)
  \/ \E req \in SignIns : Login(req)
  \/ \E metadata \in Credentials : Logout(metadata)
  \/ \E metadata \in Credentials, req \in ScheduleRequests : CreateSchedule(metadata, req)
  \/ \E metadata \in Credentials, req \in GetScheduleRequests : GetSchedule(metadata, req)
  \/ \E metadata \in Credentials : ListSchedules(metadata)
  \/ \E metadata \in Credentials, req \in ScheduleRequests : UpdateSchedule(metadata, req)
  \/ \E metadata \in Credentials, req \in GetScheduleRequests : DeleteSchedule(metadata, req)
  \/ Tick
  \/ Complete

SpecSchedules == Init /\ [][NextSchedules]_vars

(***************************************************************************)
(* Accounts, sessions and the user service, two accounts.                  *)
(***************************************************************************)
NextUsers ==
  \/ \E req \in SignUps : CreateUser(req)
  \/ \E req \in SignIns : Login(req)
  \/ \E metadata \in Credentials : Logout(metadata)
  \/ \E metadata \in Credentials, req \in UserIdRequests : GetUser(metadata, req)
  \/ \E metadata \in Credentials, req \in ListUsersRequests : ListUsers(metadata, req)
  \/ \E metadata \in Credentials, req \in UpdateUserRequests : UpdateUser(metadata, req)
  \/ \E metadata \in Credentials, req \in UserIdRequests : DeleteUser(metadata, req)
  \/ \E metadata \in Credentials : GetUserProfile(metadata)
  \/ Tick
  \/ Complete

SpecUsers == Init /\ [][NextUsers]_vars

(***************************************************************************)
(* All five services, one account.  Every handler is called with a request *)
(* that passes its checks and with one that does not; the resource tables  *)
(* together receive at most MaxRows rows.                                  *)
(***************************************************************************)
RowBudget == Len(events') + scheduleSeq' + Len(appointments') <= MaxRows

OneSignUp == {r \in SignUps : r.email = "a@x.io"}
OneSignIn == {r \in SignIns : r.email = "a@x.io"}
SomeUserUpdates ==
  {r \in UpdateUserRequests : Falsy(r.name) /\ Falsy(r.email) /\ Falsy(r.timezone)}
SomeEventCreates == {r \in CreateEventRequests : Falsy(r.description) /\ Falsy(r.color)}
SomeEventUpdates ==
  {r \in UpdateEventRequests : Falsy(r.description) /\ Falsy(r.color) /\ Falsy(r.name)}
SomeScheduleRequests == {r \in ScheduleRequests : r.availability # DayOff}
SomeAppointmentCreates == {r \in CreateAppointmentRequests : r.event_id \in {"", "1"}}
SomeAppointmentUpdates == {r \in UpdateAppointmentRequests : Falsy(r.event_id)}

NextAll ==
  /\ \/ \E req \in OneSignUp : CreateUser(req)
     \/ \E req \in OneSignIn : Login(req)
     \/ \E metadata \in Metadatas : Logout(metadata)
     \/ \E metadata \in Metadatas, req \in UserIdRequests : GetUser(metadata, req)
     \/ \E metadata \in Metadatas : ListUsers(metadata, [page |-> 1, page_size |-> 20])
     \/ \E metadata \in Metadatas, req \in SomeUserUpdates : UpdateUser(metadata, req)
     \/ \E metadata \in Metadatas, req \in UserIdRequests : DeleteUser(metadata, req)
     \/ \E metadata \in Metadatas : GetUserProfile(metadata)
     \/ \E metadata \in Metadatas, req \in SomeEventCreates : CreateEvent(metadata, req)
     \/ \E metadata \in Metadatas, req \in DeleteEventRequests : GetEvent(metadata, req)
     \/ \E metadata \in Metadatas : ListEvents(metadata)
     \/ \E metadata \in Metadatas, req \in SomeEventUpdates : UpdateEvent(metadata, req)
     \/ \E metadata \in Metadatas, req \in DeleteEventRequests : DeleteEvent(metadata, req)
     \/ \E metadata \in Metadatas, req \in SomeScheduleRequests : CreateSchedule(metadata, req)
     \/ \E metadata \in Metadatas, req \in GetScheduleRequests : GetSchedule(metadata, req)
     \/ \E metadata \in Metadatas : ListSchedules(metadata)
     \/ \E metadata \in Metadatas, req \in SomeScheduleRequests : UpdateSchedule(metadata, req)
     \/ \E metadata \in Metadatas, req \in GetScheduleRequests : DeleteSchedule(metadata, req)
     \/ \E metadata \in Metadatas, req \in SomeAppointmentCreates : CreateAppointment(metadata, req)
     \/ \E metadata \in Metadatas, req \in AppointmentIdRequests : GetAppointment(metadata, req)
     \/ \E metadata \in Metadatas : ListAppointments(metadata)
     \/ \E metadata \in Metadatas, req \in SomeAppointmentUpdates : UpdateAppointment(metadata, req)
     \/ \E metadata \in Metadatas, req \in AppointmentIdRequests : DeleteAppointment(metadata, req)
     \/ Tick
     \/ Complete
  /\ RowBudget

SpecAll == Init /\ [][NextAll]_vars

(***************************************************************************)
(* Accounts, sessions, event creation and the appointment service.         *)
(***************************************************************************)
NextAppointments ==
  \/ \E req \in SignUps : CreateUser(req)
  \/ \E req \in SignIns : Login(req)
  \/ \E metadata \in Credentials : Logout(metadata)
  \/ \E metadata \in Credentials, req \in SomeEventCreates : CreateEvent(metadata, req)
  \/ \E metadata \in Credentials, req \in CreateAppointmentRequests :
       CreateAppointment(metadata, req)
  \/ \E metadata \in Credentials, req \in AppointmentIdRequests : GetAppointment(metadata, req)
  \/ \E metadata \in Credentials : ListAppointments(metadata)
  \/ \E metadata \in Credentials, req \in UpdateAppointmentRequests :
       UpdateAppointment(metadata, req)
  \/ \E metadata \in Credentials, req \in AppointmentIdRequests :
       DeleteAppointment(metadata, req)
  \/ Tick
  \/ Complete

SpecAppointments == Init /\ [][NextAppointments]_vars

(***************************************************************************)
(* Accounts, sessions and the two updates of a row by its holder.          *)
(***************************************************************************)
Bookings == {r \in CreateAppointmentRequests : r.event_id = "1" /\ isValidEmail(r.invitee_email)}

NextUpdates ==
  \/ \E req \in SignUps : CreateUser(req)
  \/ \E req \in SignIns : Login(req)
  \/ \E metadata \in Credentials, req \in Bookings : CreateAppointment(metadata, req)
  \/ \E metadata \in Credentials, req \in UpdateAppointmentRequests :
       UpdateAppointment(metadata, req)
  \/ \E metadata \in Credentials, req \in UpdateUserRequests : UpdateUser(metadata, req)
  \/ Tick
  \/ Complete

SpecUpdates == Init /\ [][NextUpdates]_vars

(***************************************************************************)
(* Accounts, sessions, one resource of each kind, account deletion and     *)
(* schedule lookup.                                                        *)
(***************************************************************************)
OneEventCreate == {r \in SomeEventCreates : ~Falsy(r.name) /\ ~FalsyNumber(r.duration)}
OneScheduleRequest == {r \in ScheduleRequests : r.availability = WorkingHours /\ r.user_id # ""}

NextDeletion ==
  \/ \E req \in SignUps : CreateUser(req)
  \/ \E req \in SignIns : Login(req)
  \/ \E metadata \in Credentials, req \in OneEventCreate : CreateEvent(metadata, req)
  \/ \E metadata \in Credentials, req \in OneScheduleRequest : CreateSchedule(metadata, req)
  \/ \E metadata \in Credentials, req \in Bookings : CreateAppointment(metadata, req)
  \/ \E metadata \in Credentials, req \in UserIdRequests : DeleteUser(metadata, req)
  \/ \E req \in GetScheduleRequests : GetSchedule(NoMetadata, req)
  \/ Tick
  \/ Complete

SpecDeletion == Init /\ [][NextDeletion]_vars

(***************************************************************************)
(* Accounts and logins that overlap.                                       *)
(***************************************************************************)
NextLogins ==
  \/ \E req \in SignUps : CreateUser(req)
  \/ \E p \in Calls, req \in LoginRequests : LoginCall(p, req)
  \/ \E p \in Calls : LoginGet(p)
  \/ \E p \in Calls : LoginRun(p)
  \/ \E p \in Calls : LoginReturn(p)
  \/ Tick
  \/ Complete

SpecLogins == Init /\ [][NextLogins]_vars

(***************************************************************************)
(* Accounts, logins and logouts that overlap.                              *)
(***************************************************************************)
NextLogouts ==
  \/ \E req \in OneSignUp : CreateUser(req)
  \/ \E req \in OneSignIn : Login(req)
  \/ \E p \in Calls, metadata \in Credentials : LogoutCall(p, metadata)
  \/ \E p \in Calls : LogoutGet(p)
  \/ \E p \in Calls : LogoutRun(p)
  \/ \E p \in Calls : LogoutReturn(p)
  \/ Tick
  \/ Complete

SpecLogouts == Init /\ [][NextLogouts]_vars

(***************************************************************************)
(* Vocabulary of the properties.                                           *)
(***************************************************************************)
\* every operation that calls authenticate: all but CreateUser, Login, GetSchedule
ProtectedOps ==
  {"Logout", "GetUser", "ListUsers", "UpdateUser", "DeleteUser", "GetUserProfile",
   "CreateEvent", "GetEvent", "ListEvents", "UpdateEvent", "DeleteEvent",
   "CreateSchedule", "ListSchedules", "UpdateSchedule", "DeleteSchedule",
   "CreateAppointment", "GetAppointment", "ListAppointments", "UpdateAppointment",
   "DeleteAppointment"}

OwnerScopedMutations ==
  {"UpdateEvent", "DeleteEvent", "UpdateAppointment", "DeleteAppointment",
   "UpdateSchedule", "DeleteSchedule"}

UpdateOps == {"UpdateUser", "UpdateEvent", "UpdateAppointment"}

\* a call starts and ends in this step
Handled == resp = Idle /\ resp' # Idle

\* the header of the request names token t, under whatever scheme
Mentions(metadata, t) ==
  metadata # <<>> /\ \E k \in 1..Len(metadata[1]) : metadata[1][k] = t

\* the resource a mutation request targets is stored
TargetExists(op, req) ==
  CASE op \in {"UpdateEvent", "DeleteEvent"} ->
         \E i \in 1..Len(events) : events[i].id = req.event_id
    [] op \in {"UpdateAppointment", "DeleteAppointment"} ->
         \E i \in 1..Len(appointments) : appointments[i].id = req.appointment_id
    [] op \in {"UpdateSchedule", "DeleteSchedule"} ->
         \E i \in 1..Len(schedules) : schedules[i].userId = req.user_id
    [] OTHER -> FALSE

\* an update request supplies none of the mutable fields of its resource
NoMutableField(op, req) ==
  CASE op = "UpdateUser" ->
         /\ req.name = Undefined /\ req.email = Undefined
         /\ req.password = Undefined /\ req.timezone = Undefined
    [] op = "UpdateEvent" ->
         /\ req.name = Undefined /\ req.duration = Undefined
         /\ req.description = Undefined /\ req.color = Undefined
    [] op = "UpdateAppointment" ->
         /\ req.event_id = Undefined /\ req.invitee_email = Undefined
         /\ req.start_time = Undefined /\ req.end_time = Undefined
         /\ req.status = Undefined
    [] OTHER -> FALSE

\* tokens returned by a Login that a later Login of the same account followed
Superseded ==
  {Token(n) : n \in {m \in 1..Len(issuedTo) :
                       \E l \in (m + 1)..Len(issuedTo) : issuedTo[l] = issuedTo[m]}}

\* the token the latest Login of account id returned
LatestToken(id) ==
  Token(CHOOSE n \in 1..Len(issuedTo) :
          issuedTo[n] = id /\ \A l \in (n + 1)..Len(issuedTo) : issuedTo[l] # id)

(***************************************************************************)
(* Properties.                                                             *)
(***************************************************************************)
\* C1: a protected operation whose authorization header is absent, is not of
\* the form "Bearer <token>", or carries a token no account stores ends with
\* UNAUTHENTICATED, having run nothing but authenticate and written nothing.
C1_UnauthenticatedBeforeAnyCheck ==
  [][(/\ Handled
      /\ resp'.op \in ProtectedOps
      /\ \/ ~WellFormed(resp'.metadata)
         \/ ~Live(Carried(resp'.metadata)))
     => /\ resp'.code = UNAUTHENTICATED
        /\ resp'.trace = <<"authenticate">>
        /\ store' = store]_vars

\* C2: on a stored event, UpdateEvent or DeleteEvent with a valid token and a
\* request that supplies a field and no bad colour is refused with
\* PERMISSION_DENIED, the table unchanged, when the caller is not the creator,
\* and succeeds when the caller is the creator.
C2_OnlyTheCreatorWritesAnEvent ==
  [][(/\ Handled
      /\ resp'.op \in {"UpdateEvent", "DeleteEvent"}
      /\ authenticate(resp'.metadata) # AuthFailure
      /\ TargetExists(resp'.op, resp'.req)
      /\ resp'.op = "UpdateEvent" =>
           /\ ~NoMutableField("UpdateEvent", resp'.req)
           /\ resp'.req.color # Undefined => isValidHexColor(resp'.req.color))
     => LET caller == authenticate(resp'.metadata)
            target == CHOOSE e \in {events[i] : i \in 1..Len(events)} :
                        e.id = resp'.req.event_id
        IN IF target.userId # caller.id
             THEN resp'.code = PERMISSION_DENIED /\ events' = events
           ELSE resp'.code = OK]_vars

\* C3: an owner-scoped mutation answers PERMISSION_DENIED only when the
\* resource it targets is stored.
C3_DeniedOnlyForStoredTargets ==
  [][(/\ Handled
      /\ resp'.op \in OwnerScopedMutations
      /\ resp'.code = PERMISSION_DENIED)
     => TargetExists(resp'.op, resp'.req)]_vars

\* C4: once a later Login of an account has succeeded, no token an earlier
\* Login of that account returned is stored any more, the token the account
\* stores is the one its latest Login returned, and a protected call whose
\* header names an earlier token ends with UNAUTHENTICATED.
C4_LoginSupersedesEarlierTokens ==
  /\ \A t \in Superseded : ~Live(t)
  /\ \A i \in 1..Len(users) :
       users[i].token # Null => users[i].token = LatestToken(users[i].id)
  /\ (/\ resp # Idle
      /\ resp.op \in ProtectedOps
      /\ \E t \in Superseded : Mentions(resp.metadata, t))
     => resp.code = UNAUTHENTICATED

\* a protected call presented the first token after a second Login of the
\* same account, which still stores the second token
C4_Witness ==
  /\ resp # Idle
  /\ resp.op \in ProtectedOps
  /\ Token(1) \in Superseded
  /\ Mentions(resp.metadata, Token(1))
  /\ resp.code = UNAUTHENTICATED
  /\ Live(Token(2))

\* C5: a protected call whose header carries a token that a successful Logout
\* was called with ends with UNAUTHENTICATED, whatever happened in between.
C5_LoggedOutTokenIsRefused ==
  [][(/\ Handled
      /\ resp'.op \in ProtectedOps
      /\ \E t \in revoked : Mentions(resp'.metadata, t))
     => resp'.code = UNAUTHENTICATED]_vars

\* a protected call reused a logged-out token while the account, logged in
\* again, stores another token
C5_Witness ==
  /\ resp # Idle
  /\ resp.op \in ProtectedOps
  /\ WellFormed(resp.metadata)
  /\ Carried(resp.metadata) \in revoked
  /\ resp.code = UNAUTHENTICATED
  /\ resp.op # "Logout"
  /\ \E i \in 1..Len(users) : users[i].token \notin {Null, Carried(resp.metadata)}

\* C6: CreateUser with name, password and a well-formed email answers
\* ALREADY_EXISTS and inserts nothing when a stored account has exactly that
\* email, and succeeds when no stored account has exactly that email.
C6_ExactEmailDecidesCreateUser ==
  [][(/\ Handled
      /\ resp'.op = "CreateUser"
      /\ ~Falsy(resp'.req.name) /\ ~Falsy(resp'.req.password)
      /\ isValidEmail(resp'.req.email))
     => IF \E i \in 1..Len(users) : users[i].email = resp'.req.email
          THEN resp'.code = ALREADY_EXISTS /\ users' = users
        ELSE resp'.code = OK]_vars

\* C7: an authenticated UpdateUser, UpdateEvent or UpdateAppointment that
\* supplies no mutable field ends with INVALID_ARGUMENT and issues no write.
C7_EmptyUpdateIsRejected ==
  [][(/\ Handled
      /\ resp'.op \in UpdateOps
      /\ authenticate(resp'.metadata) # AuthFailure
      /\ NoMutableField(resp'.op, resp'.req))
     => /\ resp'.code = INVALID_ARGUMENT
        /\ \A k \in 1..Len(resp'.trace) : resp'.trace[k] # "write"]_vars

\* C8: a successful GetSchedule for an owner whose latest schedule write is a
\* successful CreateSchedule returns the availability that create submitted.
C8_GetReturnsCreatedAvailability ==
  (/\ resp # Idle
   /\ resp.op = "GetSchedule"
   /\ resp.code = OK
   /\ lastCreate # NoCreate
   /\ lastCreate.user_id = resp.req.user_id)
  => resp.body.availability = lastCreate.availability

\* C9: the outcome of every call is success or one of the six taxonomy codes.
C9_OutcomeWithinTaxonomy ==
  resp # Idle => resp.code \in Taxonomy \cup {OK}

\* C10: when the store rejects a statement with anything but the users.email
\* uniqueness violation, the caller receives INTERNAL with the generic
\* message and nothing of the store's error object.
C10_StoreFailureIsInternal ==
  (/\ resp # Idle
   /\ resp.raised # NoError
   /\ ~includes(resp.raised.message, "UNIQUE constraint failed: users.email"))
  => /\ resp.code = INTERNAL
     /\ resp.message = DatabaseError
     /\ resp.code # resp.raised.code
     /\ resp.message # resp.raised.message

\* the secrets of the stored accounts
Secrets == {users[i].password : i \in 1..Len(users)}

\* a record handed to the callback has no password property and no property
\* whose value is the secret of a stored account
Discreet(record) ==
  /\ "password" \notin DOMAIN record
  /\ \A f \in DOMAIN record : record[f] \notin Secrets

\* C11: no response, success or error, carries the password of an account:
\* not as a property of an account representation, not as the value of any
\* property, not in an error message.
C11_NoResponseCarriesPassword ==
  resp # Idle =>
    /\ "password" \notin DOMAIN resp.body
    /\ resp.message \notin Secrets
    /\ resp.raised.message \notin Secrets
    /\ (resp.code = OK /\ resp.op \in {"CreateUser", "GetUser", "UpdateUser", "GetUserProfile", "Login"})
         => Discreet(resp.body)
    /\ (resp.code = OK /\ resp.op = "ListUsers")
         => \A i \in 1..Len(resp.body.users) : Discreet(resp.body.users[i])

\* an account read the representation of another account, which has a secret
C11_Witness ==
  /\ resp # Idle
  /\ resp.op = "GetUser"
  /\ resp.code = OK
  /\ authenticate(resp.metadata) # AuthFailure
  /\ authenticate(resp.metadata).id # resp.body.id
  /\ \E i \in 1..Len(users) : users[i].id = resp.body.id /\ users[i].password = "pw"

\* the request breaks a field rule of its operation: an update without any
\* mutable field, a malformed email or colour, a missing availability
FailsValidation(op, req) ==
  CASE op = "UpdateUser" ->
         \/ NoMutableField(op, req)
         \/ ~Falsy(req.email) /\ ~isValidEmail(req.email)
    [] op = "UpdateEvent" ->
         \/ NoMutableField(op, req)
         \/ ~Falsy(req.color) /\ ~isValidHexColor(req.color)
    [] op = "UpdateAppointment" ->
         \/ NoMutableField(op, req)
         \/ ~Falsy(req.invitee_email) /\ ~isValidEmail(req.invitee_email)
    [] op = "UpdateSchedule" -> FalsyMessage(req.availability)
    [] OTHER -> FALSE

\* C12: a request with a valid token that breaks a field rule ends with
\* INVALID_ARGUMENT, whether or not its target exists and whoever owns it.
C12_ValidationBeforeExistenceAndOwnership ==
  [][(/\ Handled
      /\ authenticate(resp'.metadata) # AuthFailure
      /\ FailsValidation(resp'.op, resp'.req))
     => resp'.code = INVALID_ARGUMENT]_vars

\* C13: UpdateUser and DeleteUser called by an account whose id is not the
\* request's user_id end with PERMISSION_DENIED and leave table users as it was.
C13_AccountWritesAreSelfService ==
  [][(/\ Handled
      /\ resp'.op \in {"UpdateUser", "DeleteUser"}
      /\ authenticate(resp'.metadata) # AuthFailure
      /\ authenticate(resp'.metadata).id # resp'.req.user_id)
     => /\ resp'.code = PERMISSION_DENIED
        /\ users' = users]_vars

\* an account was refused a write to another stored account: a deletion, or
\* an update that names a new value
C13_Witness ==
  /\ resp # Idle
  /\ resp.op \in {"UpdateUser", "DeleteUser"}
  /\ resp.code = PERMISSION_DENIED
  /\ \E i \in 1..Len(users) : users[i].id = resp.req.user_id
  /\ resp.op = "UpdateUser" => resp.req.name = "Cyd"

\* C14: a protected call whose authorization header starts with a word other
\* than "Bearer" ends with UNAUTHENTICATED, also when the word after the
\* space is the stored token of an account.
C14_OnlyBearerSchemeAuthenticates ==
  [][(/\ Handled
      /\ resp'.op \in ProtectedOps
      /\ resp'.metadata # <<>>
      /\ resp'.metadata[1][1] # "Bearer")
     => resp'.code = UNAUTHENTICATED]_vars

\* C15: a stored appointment and the stored event its eventId names have the
\* same owner.
C15_AppointmentOwnedByEventOwner ==
  \A i \in 1..Len(appointments) : \A j \in 1..Len(events) :
    events[j].id = appointments[i].eventId => appointments[i].userId = events[j].userId

\* the account rows, or the owner ids of the rows, a list response returns
ListedOwners(op, body) ==
  CASE op = "ListUsers" -> {body.users[i].id : i \in 1..Len(body.users)}
    [] op = "ListEvents" -> {body.events[i].user_id : i \in 1..Len(body.events)}
    [] op = "ListSchedules" -> {body.schedules[i].user_id : i \in 1..Len(body.schedules)}
    [] op = "ListAppointments" ->
         {body.appointments[i].user_id : i \in 1..Len(body.appointments)}
    [] OTHER -> {}

\* C16: every row a list operation returns belongs to the caller: its owner
\* id (for ListUsers, its id) is the id of the authenticated account.
C16_ListsReturnOnlyOwnRows ==
  (/\ resp # Idle
   /\ resp.op \in {"ListUsers", "ListEvents", "ListSchedules", "ListAppointments"}
   /\ resp.code = OK)
  => ListedOwners(resp.op, resp.body) \subseteq {authenticate(resp.metadata).id}

\* C17: the outcome of GetSchedule is determined by the owner id and the
\* stored schedules alone: NOT_FOUND when the owner has no schedule, else
\* success with a schedule of that owner, whatever the request's credential;
\* never UNAUTHENTICATED or PERMISSION_DENIED.
C17_GetScheduleIgnoresCredential ==
  [][(Handled /\ resp'.op = "GetSchedule")
     => /\ resp'.code \notin {UNAUTHENTICATED, PERMISSION_DENIED}
        /\ IF \E i \in 1..Len(schedules) : schedules[i].userId = resp'.req.user_id
             THEN /\ resp'.code = OK
                  /\ resp'.body.user_id = resp'.req.user_id
                  /\ \E i \in 1..Len(schedules) :
                       /\ schedules[i].userId = resp'.req.user_id
                       /\ schedules[i].id = resp'.body.id
                       /\ schedules[i].availability = stringify(resp'.body.availability)
           ELSE resp'.code = NOT_FOUND]_vars

\* the schedule of one account was returned to a call carrying the valid
\* token of another account
C17_Witness ==
  /\ resp # Idle
  /\ resp.op = "GetSchedule"
  /\ resp.code = OK
  /\ authenticate(resp.metadata) # AuthFailure
  /\ authenticate(resp.metadata).id # resp.req.user_id

\* the account row that stores token t
Holder(t) == CHOOSE u \in Rows(users) : u.token = t

\* this step is a successful Login of the account holding t, a successful
\* Logout by it, or a successful DeleteUser of it
Ends(t) ==
  /\ Handled
  /\ resp'.code = OK
  /\ \/ resp'.op = "Login" /\ resp'.req.email = Holder(t).email
     \/ resp'.op = "Logout" /\ authenticate(resp'.metadata).id = Holder(t).id
     \/ resp'.op = "DeleteUser" /\ resp'.req.user_id = Holder(t).id

\* C18: a token Login returned stays the stored token of its account across
\* every step that is not a later Login of the account, a Logout by it or a
\* DeleteUser of it (UpdateUser included), and while it is stored a protected
\* call carrying it is authenticated; a DeleteUser of the account leaves the
\* token stored nowhere, a token stored nowhere never becomes stored again,
\* and a protected call carrying it, Logout included, ends with UNAUTHENTICATED.
C18_TokenLivesUntilLogoutLoginOrDeletion ==
  [][\A t \in IssuedTokens :
       /\ (Live(t) /\ ~Ends(t)) => (Live(t))' /\ (Holder(t).id)' = Holder(t).id
       /\ (Live(t) /\ Ends(t) /\ resp'.op = "DeleteUser") => ~(Live(t))'
       /\ ~Live(t) => ~(Live(t))'
       /\ (Handled /\ resp'.op \in ProtectedOps /\ resp'.metadata = <<Bearer(t)>>)
            => (resp'.code = UNAUTHENTICATED <=> ~Live(t))]_vars

\* the token authenticated a call after UpdateUser had renamed its account
C18_Witness ==
  /\ resp # Idle
  /\ resp.op = "GetUserProfile"
  /\ resp.code = OK
  /\ resp.body.name = "Cyd"

(***************************************************************************)
(* What the caller receives: the object handed to the callback, encoded as *)
(* its response message type and decoded by a client that loads the same   *)
(* definitions with defaults.                                              *)
(***************************************************************************)
\* a field declared "string": null and undefined are not encoded, and the
\* client reads the default
wireString(v) == IF v \in {Null, Undefined} THEN "" ELSE v

\* a field declared "optional string": null and undefined are not encoded,
\* and the client finds the field absent
wireOptional(v) == IF v \in {Null, Undefined} THEN Undefined ELSE v

\* message User
wireUser(u) ==
  [id |-> wireString(u.id), name |-> wireString(u.name), email |-> wireString(u.email),
   timezone |-> wireString(u.timezone)]

\* message Event: the optional fields
wireEvent(e) ==
  [id |-> wireString(e.id), description |-> wireOptional(e.description),
   color |-> wireOptional(e.color)]

\* a received optional field is a string, and the empty string when the
\* stored row holds no value
EmptyWhenNotHeld(received, held) ==
  /\ received \notin {Null, Undefined}
  /\ held = Null => received = ""

UserAsStored(id) == CHOOSE u \in Rows(users) : u.id = id
EventAsStored(id) == CHOOSE e \in Rows(events) : e.id = id

ReceivedUserIsComplete(u) ==
  EmptyWhenNotHeld(wireUser(u).timezone, UserAsStored(u.id).timezone)

ReceivedEventIsComplete(e) ==
  /\ EmptyWhenNotHeld(wireEvent(e).description, EventAsStored(e.id).description)
  /\ EmptyWhenNotHeld(wireEvent(e).color, EventAsStored(e.id).color)

\* C19: in every successful response that returns an account or an event, the
\* caller receives timezone, description and color as strings, and as the
\* empty string when the stored row holds no value for them.
C19_MissingOptionalFieldsAreEmptyStrings ==
  (resp # Idle /\ resp.code = OK) =>
    /\ resp.op \in {"CreateUser", "GetUser", "UpdateUser", "GetUserProfile"}
         => ReceivedUserIsComplete(resp.body)
    /\ resp.op = "ListUsers"
         => \A i \in 1..Len(resp.body.users) : ReceivedUserIsComplete(resp.body.users[i])
    /\ resp.op \in {"CreateEvent", "GetEvent", "UpdateEvent"}
         => ReceivedEventIsComplete(resp.body)
    /\ resp.op = "ListEvents"
         => \A i \in 1..Len(resp.body.events) : ReceivedEventIsComplete(resp.body.events[i])

\* an account stored without timezone was returned by GetUser, which passes
\* the row on as read (timezone null), while an event without description
\* and colour is stored
C19_Witness ==
  /\ resp # Idle
  /\ resp.code = OK
  /\ resp.op = "GetUser"
  /\ UserAsStored(resp.body.id).timezone = Null
  /\ resp.body.timezone = Null
  /\ wireUser(resp.body).timezone = ""
  /\ \E i \in 1..Len(events) : events[i].description = Null /\ events[i].color = Null

\* the number of table positions among (p-1)*s .. p*s-1, counted from 0
PageLength(p, s) ==
  LET first == (p - 1) * s
      last == IF p * s < Len(users) THEN p * s ELSE Len(users)
  IN IF last > first THEN last - first ELSE 0

\* the response holds the accounts at positions (p-1)*s .. p*s-1 in store
\* order, echoes p and s, and reports the length of the page as total
IsPage(body, p, s) ==
  /\ Len(body.users) = PageLength(p, s)
  /\ \A k \in 1..Len(body.users) : body.users[k].id = users[(p - 1) * s + k].id
  /\ body.pagination = [page |-> p, page_size |-> s, total |-> Len(body.users)]

\* C20 (amended): ListUsers with page p >= 1 and page_size s >= 0 returns the
\* accounts at store positions (p-1)*s up to p*s-1, echoes p and s, and
\* reports as total the number of accounts in the returned page.
C20_ListUsersReturnsThePage ==
  (/\ resp # Idle
   /\ resp.op = "ListUsers"
   /\ resp.code = OK
   /\ resp.req.page >= 1
   /\ resp.req.page_size >= 0)
  => IsPage(resp.body, resp.req.page, resp.req.page_size)

\* the second page of size 1 of two stored accounts: one account, total 1
C20_Witness ==
  /\ resp # Idle
  /\ resp.op = "ListUsers"
  /\ resp.code = OK
  /\ resp.req = [page |-> 2, page_size |-> 1]
  /\ Len(users) = 2
  /\ resp.body.users[1].id = users[2].id
  /\ resp.body.pagination.total = 1

\* C20 as stated: ListUsers with page p >= 1 and any page_size s returns the
\* accounts at store positions (p-1)*s up to p*s-1, echoes p and s, and
\* reports as total the number of accounts in the returned page.
C20_AsStated ==
  (/\ resp # Idle
   /\ resp.op = "ListUsers"
   /\ resp.code = OK
   /\ resp.req.page >= 1)
  => IsPage(resp.body, resp.req.page, resp.req.page_size)

(***************************************************************************)
(* Login.                                                                  *)
(***************************************************************************)
\* the accounts whose email is exactly the supplied one and whose stored
\* secret is the supplied password
Matching(req) == {u \in Rows(users) : u.email = req.email /\ u.password = req.password}

TokensUnchanged ==
  /\ Len(users') = Len(users)
  /\ \A i \in 1..Len(users) : users'[i].id = users[i].id /\ users'[i].token = users[i].token

\* C21: Login answers OK exactly when email and password are both non-empty
\* and an account with exactly that email stores exactly that password; an
\* empty field gives INVALID_ARGUMENT; an unknown email and a wrong password
\* give UNAUTHENTICATED with one and the same message; a Login that fails
\* changes no account's stored token.
C21_LoginSucceedsExactlyOnMatch ==
  [][Handled /\ resp'.op = "Login" =>
       LET req == resp'.req
           present == req.email # "" /\ req.password # ""
       IN /\ (resp'.code = OK) <=> (present /\ Matching(req) # {})
          /\ ~present => resp'.code = INVALID_ARGUMENT
          /\ (present /\ Matching(req) = {}) =>
               resp'.code = UNAUTHENTICATED /\ resp'.message = "Invalid credentials"
          /\ resp'.code # OK => TokensUnchanged]_vars

\* a wrong password for an account that holds a token has been refused
C21_Witness ==
  /\ resp # Idle
  /\ resp.op = "Login"
  /\ resp.code = UNAUTHENTICATED
  /\ \E u \in Rows(users) :
       u.email = resp.req.email /\ u.password # resp.req.password /\ u.token # Null

(***************************************************************************)
(* Partial update of an event.                                             *)
(***************************************************************************)
Supplied(v) == v \notin {Undefined, Null, ""}

\* the stored event that a call addresses, NoRow when there is none
Addressed(req) == dbGet(events, {rec \in Rows(events) : rec.id = req.event_id})

\* the event with the supplied fields replaced and the others kept
Patched(e, req) ==
  [e EXCEPT !.name = IF Supplied(req.name) THEN req.name ELSE @,
            !.duration = IF Supplied(req.duration) THEN req.duration ELSE @,
            !.description = IF Supplied(req.description) THEN req.description ELSE @,
            !.color = IF Supplied(req.color) THEN req.color ELSE @]

\* C22: an UpdateEvent by the owner of a stored event that supplies some of
\* name, duration, description, color (the colour, if any, well formed)
\* succeeds whether or not duration is among them, stores the supplied values
\* and keeps every field that is not supplied, duration included.
C22_UpdateEventKeepsOmittedFields ==
  [][Handled /\ resp'.op = "UpdateEvent" =>
       LET req == resp'.req
           user == authenticate(resp'.metadata)
           e == Addressed(req)
       IN (/\ user # AuthFailure
           /\ e # NoRow
           /\ e.userId = user.id
           /\ \E f \in {"name", "duration", "description", "color"} : Supplied(req[f])
           /\ Supplied(req.color) => isValidHexColor(req.color))
          => /\ resp'.code = OK
             /\ \A i \in 1..Len(events) :
                  events'[i] = IF events[i].id = req.event_id THEN Patched(events[i], req)
                               ELSE events[i]]_vars

(***************************************************************************)
(* Partial update of an appointment and of an account.                     *)
(***************************************************************************)
PatchedAppointment(a, req) ==
  [a EXCEPT !.eventId = IF Supplied(req.event_id) THEN req.event_id ELSE @,
            !.inviteeEmail = IF Supplied(req.invitee_email) THEN req.invitee_email ELSE @,
            !.startTime = IF Supplied(req.start_time) THEN req.start_time ELSE @,
            !.endTime = IF Supplied(req.end_time) THEN req.end_time ELSE @,
            !.status = IF Supplied(req.status) THEN req.status ELSE @]

PatchedUser(u, req) ==
  [u EXCEPT !.name = IF Supplied(req.name) THEN req.name ELSE @,
            !.email = IF Supplied(req.email) THEN req.email ELSE @,
            !.password = IF Supplied(req.password) THEN req.password ELSE @,
            !.timezone = IF Supplied(req.timezone) THEN req.timezone ELSE @]

\* C23: an UpdateAppointment or UpdateUser that answers OK has replaced, in
\* the addressed row, exactly the fields the request supplies non-empty; the
\* other fields of that row (the appointment's userId, the account's token),
\* every other row and every other table are as before, and the answer is
\* the addressed row as stored after the update.
C23_UpdateChangesOnlySuppliedFields ==
  [][Handled /\ resp'.op \in {"UpdateAppointment", "UpdateUser"} /\ resp'.code = OK =>
       LET req == resp'.req IN
       IF resp'.op = "UpdateAppointment"
         THEN /\ Len(appointments') = Len(appointments)
              /\ \A i \in 1..Len(appointments) :
                   /\ appointments'[i] =
                        IF appointments[i].id = req.appointment_id
                          THEN PatchedAppointment(appointments[i], req) ELSE appointments[i]
                   /\ appointments[i].id = req.appointment_id =>
                        resp'.body = AppointmentView(appointments'[i])
              /\ \E i \in 1..Len(appointments) : appointments[i].id = req.appointment_id
              /\ UNCHANGED <<users, events, schedules>>
       ELSE /\ Len(users') = Len(users)
            /\ \A i \in 1..Len(users) :
                 /\ users'[i] = IF users[i].id = req.user_id THEN PatchedUser(users[i], req)
                                ELSE users[i]
                 /\ users[i].id = req.user_id => resp'.body = UserView(users'[i])
            /\ \E i \in 1..Len(users) : users[i].id = req.user_id
            /\ UNCHANGED <<events, schedules, appointments>>]_vars

\* an appointment of one of two accounts has been updated in its status
\* alone, by a holder that has a token
C23_Witness ==
  /\ resp # Idle
  /\ resp.op = "UpdateAppointment"
  /\ resp.code = OK
  /\ Supplied(resp.req.status)
  /\ ~Supplied(resp.req.start_time)
  /\ Len(users) = 2
  /\ \E i \in 1..Len(appointments) :
       appointments[i].id = resp.req.appointment_id /\ appointments[i].startTime = "10:00"

(***************************************************************************)
(* Status of an appointment.                                               *)
(***************************************************************************)
StoredAppointment(table, id) == {a \in Rows(table) : a.id = id}

\* C24: an appointment that enters the store has status 'scheduled' and is
\* answered with that status, whatever the request holds; the stored status
\* of an appointment differs after a step only when the step is an
\* UpdateAppointment that answers OK, is made by the account in the row's
\* userId and supplies a status.
C24_StatusStartsScheduledAndChangesByOwnerUpdate ==
  [][/\ \A a \in Rows(appointments') :
         StoredAppointment(appointments, a.id) = {} =>
           /\ a.status = "scheduled"
           /\ resp'.op = "CreateAppointment" /\ resp'.code = OK
           /\ resp'.body.status = "scheduled"
     /\ \A a \in Rows(appointments) : \A b \in StoredAppointment(appointments', a.id) :
         b.status # a.status =>
           /\ resp'.op = "UpdateAppointment" /\ resp'.code = OK
           /\ resp'.req.appointment_id = a.id
           /\ Supplied(resp'.req.status) /\ b.status = resp'.req.status
           /\ authenticate(resp'.metadata) # AuthFailure
           /\ authenticate(resp'.metadata).id = a.userId]_vars

\* the holder has set the status of a stored appointment to 'canceled'
C24_Witness ==
  /\ resp # Idle
  /\ resp.op = "UpdateAppointment"
  /\ resp.code = OK
  /\ \E a \in Rows(appointments) :
       a.id = resp.req.appointment_id /\ a.status = "canceled" /\ resp.req.status = "canceled"

(***************************************************************************)
(* Writes to schedules.                                                    *)
(***************************************************************************)
ScheduleWrites == {"CreateSchedule", "UpdateSchedule", "DeleteSchedule"}

\* the field rules of the three operations
MissingScheduleField(op, req) ==
  CASE op = "CreateSchedule" -> Falsy(req.user_id) \/ FalsyMessage(req.availability)
    [] op = "UpdateSchedule" -> FalsyMessage(req.availability)
    [] OTHER -> FALSE

SchedulesOf(id) == {r \in Rows(schedules) : r.userId = id}

\* what the three operations do for the caller, given that the request is
\* one the statement covers
ScheduleWriteOutcome(covered) ==
  (/\ Handled
   /\ resp'.op \in ScheduleWrites
   /\ authenticate(resp'.metadata) # AuthFailure
   /\ covered)
   => LET caller == authenticate(resp'.metadata)
          req == resp'.req
      IN IF req.user_id # caller.id
           THEN resp'.code = PERMISSION_DENIED /\ schedules' = schedules
         ELSE IF resp'.op = "CreateSchedule"
           THEN /\ resp'.code = OK
                /\ Len(schedules') = Len(schedules) + 1
                /\ schedules'[Len(schedules')].userId = caller.id
         ELSE /\ (resp'.code = NOT_FOUND) <=> (SchedulesOf(caller.id) = {})
              /\ SchedulesOf(caller.id) # {} => resp'.code = OK
              /\ SchedulesOf(caller.id) = {} => schedules' = schedules

\* C25: a CreateSchedule, UpdateSchedule or DeleteSchedule that passes the
\* field rules of its operation and names a user_id other than the caller's id
\* answers PERMISSION_DENIED and leaves table schedules as it was; with the
\* caller's own id CreateSchedule answers OK and adds a row, and
\* UpdateSchedule and DeleteSchedule answer NOT_FOUND exactly when the caller
\* has no schedule row.
C25_ScheduleWritesAreSelfService ==
  [][ScheduleWriteOutcome(~MissingScheduleField(resp'.op, resp'.req))]_vars

\* an account with a valid token was refused a write to the stored schedule
\* of the other account
C25_Witness ==
  /\ resp # Idle
  /\ resp.op \in {"UpdateSchedule", "DeleteSchedule"}
  /\ resp.code = PERMISSION_DENIED
  /\ SchedulesOf(resp.req.user_id) # {}
  /\ \E t \in IssuedTokens : Mentions(resp.metadata, t) /\ Live(t)

\* the same for every request, whether or not it passes the field rules
C25_AsStated == [][ScheduleWriteOutcome(TRUE)]_vars

(***************************************************************************)
(* Appointments of another account.                                        *)
(***************************************************************************)
AppointmentReads == {"GetAppointment", "ListAppointments"}
AppointmentWrites == {"UpdateAppointment", "DeleteAppointment"}

\* the field rules of UpdateAppointment
BadAppointmentUpdate(op, req) ==
  /\ op = "UpdateAppointment"
  /\ \/ /\ Falsy(req.event_id) /\ Falsy(req.invitee_email) /\ Falsy(req.start_time)
        /\ Falsy(req.end_time) /\ Falsy(req.status)
     \/ ~Falsy(req.invitee_email) /\ ~isValidEmail(req.invitee_email)

\* what a call with a valid token meets on the stored appointments of other
\* accounts, given that the request is one the statement covers
ForeignAppointmentOutcome(covered) ==
  (/\ Handled
   /\ resp'.op \in AppointmentReads \cup AppointmentWrites
   /\ authenticate(resp'.metadata) # AuthFailure
   /\ covered)
   => \A a \in Rows(appointments) :
        a.userId # authenticate(resp'.metadata).id =>
          /\ (resp'.op \in AppointmentWrites /\ resp'.req.appointment_id = a.id) =>
               resp'.code = PERMISSION_DENIED /\ appointments' = appointments
          /\ (resp'.op = "GetAppointment" /\ resp'.req.appointment_id = a.id) =>
               resp'.code = NOT_FOUND /\ resp'.body = NoBody
          /\ resp'.op = "ListAppointments" =>
               \A k \in 1..Len(resp'.body.appointments) :
                  resp'.body.appointments[k].id # a.id

\* C26: for a stored appointment whose userId is account A, an
\* UpdateAppointment that passes the field rules and a DeleteAppointment by
\* another account B with a valid token answer PERMISSION_DENIED and leave
\* table appointments as it was, GetAppointment by B answers NOT_FOUND with
\* no body, and the list ListAppointments returns to B does not hold it.
C26_ForeignAppointmentIsOutOfReach ==
  [][ForeignAppointmentOutcome(~BadAppointmentUpdate(resp'.op, resp'.req))]_vars

\* account B asked for a stored appointment of account A and got NOT_FOUND
C26_Witness ==
  /\ resp # Idle
  /\ resp.op = "GetAppointment"
  /\ resp.code = NOT_FOUND
  /\ \E a \in Rows(appointments), u \in Rows(users) :
       /\ a.id = resp.req.appointment_id
       /\ Mentions(resp.metadata, u.token)
       /\ a.userId # u.id

\* the same for every UpdateAppointment, whether or not it passes the field rules
C26_AsStated == [][ForeignAppointmentOutcome(TRUE)]_vars

(***************************************************************************)
(* Deletion of an account.                                                 *)
(***************************************************************************)
Stored(id) == \E u \in Rows(users) : u.id = id

\* C27: a DeleteUser that answers OK removes the account row and nothing
\* else: the other accounts and every event, schedule and appointment, those
\* of the deleted account included, are stored as before; a GetSchedule for an
\* owner id that has schedule rows answers OK with the first of them, whether
\* or not an account with that id is still stored.
C27_DeleteUserRemovesOnlyTheAccount ==
  [][/\ (Handled /\ resp'.op = "DeleteUser") =>
          /\ events' = events /\ schedules' = schedules /\ appointments' = appointments
          /\ Rows(users') = IF resp'.code = OK
                              THEN {u \in Rows(users) : u.id # resp'.req.user_id}
                            ELSE Rows(users)
     /\ (Handled /\ resp'.op = "GetSchedule" /\ SchedulesOf(resp'.req.user_id) # {}) =>
          /\ resp'.code = OK
          /\ resp'.body.user_id = resp'.req.user_id
          /\ \E r \in SchedulesOf(resp'.req.user_id) :
               /\ resp'.body.id = r.id
               /\ resp'.body.availability = parse(r.availability)
               /\ \A q \in SchedulesOf(resp'.req.user_id) : r.id <= q.id]_vars

\* GetSchedule has answered with the schedule of an owner whose account is
\* deleted, while an event and an appointment of that owner are stored
C27_Witness ==
  /\ resp # Idle
  /\ resp.op = "GetSchedule"
  /\ resp.code = OK
  /\ ~Stored(resp.req.user_id)
  /\ \E e \in Rows(events) : e.userId = resp.req.user_id
  /\ \E a \in Rows(appointments) : a.userId = resp.req.user_id

(***************************************************************************)
(* Two logins of one account that overlap.                                 *)
(***************************************************************************)
LoggedIn(p) ==
  inflight[p].pc = "done" /\ inflight[p].op = "Login" /\ inflight[p].code = OK

Overlap(p, q) == p \in inflight[q].during \/ q \in inflight[p].during

\* no call has had its UPDATE applied after that of call q
WroteLast(q) == \A r \in Calls : inflight[r] # NotCalled => q \notin inflight[r].after

\* C28: when two Login calls of one account overlap and both have answered
\* OK, the account stores the token answered to the call whose UPDATE was
\* applied last; the two tokens differ; the stored one authenticates as the
\* account and the other one does not authenticate.
C28_ConcurrentLoginsLastWriteWins ==
  \A p \in Calls, q \in Calls :
    (/\ p # q
     /\ LoggedIn(p) /\ LoggedIn(q)
     /\ inflight[p].user.id = inflight[q].user.id
     /\ Overlap(p, q)
     /\ p \in inflight[q].after
     /\ WroteLast(q))
    => /\ StoredToken(inflight[q].user.id) = {inflight[q].body.token}
       /\ inflight[p].body.token # inflight[q].body.token
       /\ authenticate(<<Bearer(inflight[q].body.token)>>) # AuthFailure
       /\ authenticate(<<Bearer(inflight[q].body.token)>>).id = inflight[q].user.id
       /\ authenticate(<<Bearer(inflight[p].body.token)>>) = AuthFailure

\* two overlapping logins of one account have both answered OK, and the call
\* that drew its token first wrote last
C28_Witness ==
  \E p \in Calls, q \in Calls :
    /\ p # q
    /\ LoggedIn(p) /\ LoggedIn(q)
    /\ inflight[p].user.id = inflight[q].user.id
    /\ Overlap(p, q)
    /\ p \in inflight[q].after
    /\ inflight[q].token = Token(1)
    /\ inflight[p].token = Token(2)
    /\ StoredToken(inflight[q].user.id) = {Token(1)}

(***************************************************************************)
(* Logout repeated.                                                        *)
(***************************************************************************)
LogoutAnswered(p) ==
  inflight[p] # NotCalled /\ inflight[p].op = "Logout" /\ inflight[p].pc = "done"

\* the call presented a token that a Logout answered before had revoked
Repeats(p) == inflight[p].repeats

\* the account held no token any more when the UPDATE of the call was applied
FoundAbsent(p) == inflight[p].user # NoRow /\ inflight[p].found \subseteq {Null}

\* C29: clearing a token that is already absent is not an error of the
\* store: a Logout that authenticated answers 'Logout successful' also when
\* its UPDATE finds the token already cleared by an overlapping Logout.  The
\* same request repeated after a Logout has answered OK presents a token that
\* resolves to no account and is answered UNAUTHENTICATED.
C29_RevocationIsIdempotentInTheStore ==
  \A p \in Calls :
    LogoutAnswered(p) =>
      /\ Repeats(p) => inflight[p].code = UNAUTHENTICATED /\ inflight[p].user = NoRow
      /\ inflight[p].user # NoRow => inflight[p].code = OK
      /\ FoundAbsent(p) => inflight[p].code = OK

\* a Logout repeated with the token of an answered Logout has been refused
\* while the account holds no token
C29_Witness ==
  \E p \in Calls, q \in Calls :
    /\ p # q
    /\ LogoutAnswered(p) /\ inflight[p].code = OK
    /\ LogoutAnswered(q) /\ Repeats(q) /\ inflight[q].code = UNAUTHENTICATED
    /\ inflight[q].req = inflight[p].req
    /\ StoredToken(inflight[p].user.id) = {Null}

\* the repeated Logout is answered without error
C29_AsStated ==
  \A p \in Calls : (LogoutAnswered(p) /\ Repeats(p)) => inflight[p].code = OK

(***************************************************************************)
(* One token, one account.                                                 *)
(***************************************************************************)
\* the accounts that SELECT * FROM users WHERE token = ? matches
Resolves(t) == {u \in Rows(users) : u.token # Null /\ u.token = t}

\* C30: in every reachable state no two stored accounts hold the same
\* non-null token: every token Login has drawn, like every token that is
\* stored, matches at most one account, and the row authenticate returns for
\* it is the account Login issued it to.
C30_TokenResolvesToOneAccount ==
  /\ \A i \in 1..Len(users), j \in 1..Len(users) :
       (i # j /\ users[i].token # Null) => users[i].token # users[j].token
  /\ \A n \in 1..tokensIssued :
       /\ Cardinality(Resolves(Token(n))) <= 1
       /\ authenticate(<<Bearer(Token(n))>>) # AuthFailure =>
            authenticate(<<Bearer(Token(n))>>).id = issuedTo[n]
  /\ (resp # Idle /\ resp.op = "GetUserProfile" /\ resp.code = OK) =>
       \E n \in 1..tokensIssued :
          Mentions(resp.metadata, Token(n)) /\ resp.body.id = issuedTo[n]

\* two accounts hold a token each, and the second account's token has
\* authenticated a call as the second account
C30_Witness ==
  /\ Len(users) = 2
  /\ \A i \in 1..Len(users) : users[i].token # Null
  /\ resp # Idle
  /\ resp.op = "GetUserProfile"
  /\ resp.code = OK
  /\ resp.body.id = users[2].id

\* C31: whatever CreateSchedule, UpdateSchedule and DeleteSchedule calls were
\* answered, the schedules table holds at most one row per owner.
C31_OneScheduleRowPerOwner ==
  \A id \in UserIds : Cardinality(SchedulesOf(id)) <= 1

\* C32: the schedule in the response of a successful CreateSchedule is the
\* row this call inserted: its id is the id of the one row that is stored
\* after the call and was not stored before it, also when the owner had a
\* row already.
C32_CreateScheduleReturnsInsertedRow ==
  [][(Handled /\ resp'.op = "CreateSchedule" /\ resp'.code = OK) =>
       \E row \in Rows(schedules') \ Rows(schedules) :
         /\ Rows(schedules') \ Rows(schedules) = {row}
         /\ resp'.body.id = row.id
         /\ resp'.body.user_id = row.userId]_vars

\* C33: an UpdateUser that an account makes on itself with an email stored
\* in the row of a different account is answered ALREADY_EXISTS and leaves
\* the users table as it was.
C33_DuplicateEmailUpdateIsAlreadyExists ==
  [][(/\ Handled /\ resp'.op = "UpdateUser"
      /\ authenticate(resp'.metadata) # AuthFailure
      /\ authenticate(resp'.metadata).id = resp'.req.user_id
      /\ ~Falsy(resp'.req.email)
      /\ \E u \in Rows(users) : u.id # resp'.req.user_id /\ u.email = resp'.req.email)
       => /\ resp'.code = ALREADY_EXISTS
          /\ users' = users]_vars

\* the ids stored for the kind of row that a create operation inserts
StoredIds(op) ==
  IF op = "CreateUser" THEN {r.id : r \in Rows(users)}
  ELSE IF op = "CreateEvent" THEN {r.id : r \in Rows(events)}
  ELSE {r.id : r \in Rows(appointments)}

\* the primary key failure of the table that a create operation inserts into
DuplicateId(op) ==
  IF op = "CreateUser" THEN "UNIQUE constraint failed: users.id"
  ELSE IF op = "CreateEvent" THEN "UNIQUE constraint failed: events.id"
  ELSE "UNIQUE constraint failed: appointments.id"

\* C34: a CreateUser, CreateEvent or CreateAppointment never fails on the id
\* it was assigned, and the id of a row it inserts differs from every id
\* stored for its kind before the call, also when an earlier create was
\* handled at the same clock reading.
C34_AssignedIdsNeverCollide ==
  [][(Handled /\ resp'.op \in {"CreateUser", "CreateEvent", "CreateAppointment"}) =>
       /\ ~includes(resp'.raised.message, DuplicateId(resp'.op))
       /\ resp'.code = OK => resp'.body.id \notin StoredIds(resp'.op)]_vars

\* the statuses with which a handler turns a call down
Rejections == {INVALID_ARGUMENT, UNAUTHENTICATED, PERMISSION_DENIED, NOT_FOUND}

\* C35: a call answered INVALID_ARGUMENT, UNAUTHENTICATED, PERMISSION_DENIED
\* or NOT_FOUND has inserted, updated and deleted nothing: every table is
\* after the call as it was before it.
C35_RejectedCallWritesNothing ==
  [][(Handled /\ resp'.code \in Rejections) => store' = store]_vars

\* CreateSchedule for another account was turned down while rows are stored
C35_Witness ==
  /\ resp # Idle
  /\ resp.op = "CreateSchedule"
  /\ resp.code = PERMISSION_DENIED
  /\ "ownership" \in {resp.trace[i] : i \in 1..Len(resp.trace)}
  /\ Len(users) > 0

(***************************************************************************)
(* Accounts, sessions, one resource of each kind and every update; the     *)
(* resource tables together receive at most MaxSchedules rows.             *)
(***************************************************************************)
TwoRows == Len(events') + scheduleSeq' + Len(appointments') <= MaxSchedules
FullEventUpdates == {r \in UpdateEventRequests : ~Falsy(r.name) /\ ~Falsy(r.description)}
Cancellations == {r \in UpdateAppointmentRequests : r.status = "canceled"}
Renames == {r \in UpdateUserRequests : ~Falsy(r.name)}

NextOwners ==
  /\ \/ \E req \in SignUps : CreateUser(req)
     \/ \E req \in SignIns : Login(req)
     \/ \E metadata \in Credentials : Logout(metadata)
     \/ \E metadata \in Credentials, req \in OneEventCreate : CreateEvent(metadata, req)
     \/ \E metadata \in Credentials, req \in OneScheduleRequest : CreateSchedule(metadata, req)
     \/ \E metadata \in Credentials, req \in Bookings : CreateAppointment(metadata, req)
     \/ \E metadata \in Credentials, req \in FullEventUpdates : UpdateEvent(metadata, req)
     \/ \E metadata \in Credentials, req \in OneScheduleRequest : UpdateSchedule(metadata, req)
     \/ \E metadata \in Credentials, req \in Cancellations : UpdateAppointment(metadata, req)
     \/ \E metadata \in Credentials, req \in Renames : UpdateUser(metadata, req)
     \/ Tick
     \/ Complete
  /\ TwoRows

SpecOwners == Init /\ [][NextOwners]_vars

\* the rows of a table that have the id of the given row
SameRow(table, row) == {r \in Rows(table) : r.id = row.id}

\* a row of the table after a step either was stored before the step with
\* the same userId, or was inserted by a successful call of the given create
\* operation made by the account in its userId
OwnerIsFixed(before, after, create) ==
  \A row \in Rows(after) :
    IF SameRow(before, row) # {}
      THEN \A old \in SameRow(before, row) : row.userId = old.userId
    ELSE /\ resp'.op = create /\ resp'.code = OK
         /\ authenticate(resp'.metadata) # AuthFailure
         /\ row.userId = authenticate(resp'.metadata).id

\* C36: the userId of an event, schedule or appointment is the account that
\* created the row, and no step (UpdateEvent, UpdateSchedule,
\* UpdateAppointment, UpdateUser, Login, Logout or any other) changes the
\* userId of a stored row.
C36_OwnerIsFixedAtCreation ==
  [][/\ OwnerIsFixed(events, events', "CreateEvent")
     /\ OwnerIsFixed(schedules, schedules', "CreateSchedule")
     /\ OwnerIsFixed(appointments, appointments', "CreateAppointment")]_vars

\* the second account has created an event and a schedule, an appointment
\* is stored, and an update of the event by its owner has been answered
C36_Witness ==
  /\ resp # Idle
  /\ resp.op = "UpdateEvent"
  /\ resp.code = OK
  /\ \E e \in Rows(events) : e.userId = "2" /\ e.name = "Chat"
  /\ \E r \in Rows(schedules) : r.userId = "2"

\* the step in which the store applies the UPDATE of the Logout in slot p
LogoutWrites(p) ==
  /\ inflight[p].pc = "run"
  /\ inflight[p].op = "Logout"
  /\ inflight'[p].pc = "callback"

\* C38: the write of a Logout revokes only the token the Logout was
\* presented with: a different token that authenticates before the write,
\* such as one a Login of the same account stored after the Logout had
\* authenticated, authenticates after it.
C38_LogoutRevokesOnlyItsToken ==
  [][\A p \in Calls : LogoutWrites(p) =>
       \A t \in IssuedTokens \ {inflight[p].user.token} : Live(t) => Live(t)']_vars

(***************************************************************************)
(* One account, its sessions and its deletion, and CreateEvent calls that  *)
(* overlap with them.                                                      *)
(***************************************************************************)
NextRevocation ==
  \/ \E req \in OneSignUp : CreateUser(req)
  \/ \E req \in OneSignIn : Login(req)
  \/ \E metadata \in Credentials : Logout(metadata)
  \/ \E metadata \in Credentials, req \in UserIdRequests : DeleteUser(metadata, req)
  \/ \E p \in Calls, metadata \in Credentials, req \in OneEventCreate :
       CreateEventCall(p, metadata, req)
  \/ \E p \in Calls : CreateEventAuth(p)
  \/ \E p \in Calls : CreateEventRun(p)
  \/ \E p \in Calls : CreateEventReturn(p)
  \/ Tick
  \/ Complete

SpecRevocation == Init /\ [][NextRevocation]_vars

\* the step in which the store applies the write statement of the protected
\* call in slot p
AppliesWrite(p) ==
  /\ inflight[p].pc = "run"
  /\ inflight[p].op \in ProtectedOps
  /\ inflight'[p].pc # "run"

\* C37: when the store applies the insert, update or delete of a protected
\* call, the token the call authenticated with is the token stored for the
\* calling account, also when a Logout, a Login or a DeleteUser of the
\* account was handled after the call had authenticated.
C37_NoWriteForRevokedSession ==
  [][\A p \in Calls : AppliesWrite(p) =>
       StoredToken(inflight[p].user.id) = {inflight[p].user.token}]_vars

(***************************************************************************)
(* One account, its event, and UpdateEvent calls that overlap with the     *)
(* deletion of the event.                                                  *)
(***************************************************************************)
NextRaces ==
  \/ \E req \in OneSignUp : CreateUser(req)
  \/ \E req \in OneSignIn : Login(req)
  \/ \E metadata \in Credentials, req \in OneEventCreate : CreateEvent(metadata, req)
  \/ \E metadata \in Credentials, req \in DeleteEventRequests : DeleteEvent(metadata, req)
  \/ \E p \in Calls, metadata \in Credentials, req \in FullEventUpdates :
       UpdateEventCall(p, metadata, req)
  \/ \E p \in Calls : UpdateEventAuth(p)
  \/ \E p \in Calls : UpdateEventGet(p)
  \/ \E p \in Calls : UpdateEventRun(p)
  \/ \E p \in Calls : UpdateEventFetch(p)
  \/ Tick
  \/ Complete

SpecRaces == Init /\ [][NextRaces]_vars

\* the UpdateEvent in slot p was authenticated and has been answered
UpdateAnswered(p) ==
  /\ inflight[p].pc = "done"
  /\ inflight[p].op = "UpdateEvent"
  /\ inflight[p].user # NoRow

\* C39: an UpdateEvent by the owner of the event that overlaps with a
\* DeleteEvent of the same event by the owner is answered either OK with
\* the updated row, or NOT_FOUND having written nothing; it is never
\* answered INTERNAL, and never with an error after its UPDATE changed the
\* row.
C39_UpdateRacingDeleteEndsCleanly ==
  \A p \in Calls : UpdateAnswered(p) =>
    \/ /\ inflight[p].code = OK
       /\ inflight[p].wrote
       /\ inflight[p].body.id = inflight[p].req.event_id
       /\ inflight[p].body.name = inflight[p].req.name
    \/ /\ inflight[p].code = NOT_FOUND
       /\ ~inflight[p].wrote

====
